---- MODULE Spec2Model ----
(***************************************************************************)
(* A model of codemap: the graph store (internal/graph over internal/db),  *)
(* the impact query, the index lifecycle of the MCP tool layer, the        *)
(* scanner, the file watcher and the language-server client                 *)
(* (internal/lsp).                                                         *)
(***************************************************************************)
EXTENDS Naturals, Sequences, FiniteSets, TLC

VARIABLES
    nodes,      \* rows of table nodes: a set of node records, at most one per id
    edges,      \* rows of table edges: a set of [source_id, target_id, relation]
    lastOp,     \* the store operation that ran last, with its arguments and outcome
    impact,     \* the FindImpact call in progress: its position and its locals
    storeCall,  \* for each caller, its PruneStaleFiles or Clear in progress: the statements still to run
    life,       \* Server.indexStatus, indexError, indexReady and the channels closed
    mainPc,     \* where main() is: the initial index, then serving
    idx,        \* the index tool calls: position, locals and result of each
    qry,        \* the query tool calls: position, locals and result of each
    lastEnded,  \* the index run that ended last: its status, error and number
    clock,      \* the time, in units of 100 ms
    disk,       \* the source files of the workspace: whether each exists, and its definitions
    events,     \* the fsnotify events not yet received by Watch
    pendingFiles, \* Watcher.pendingFiles: the entries [path, deadline] of the map
    deb,        \* the debounce goroutine: position and locals of processPendingFiles and reindexFile
    burst,      \* for each path, the events and flushes of its latest pending entry
    run,        \* the index tool call that scans the disk: position and locals
    done,       \* the index tool calls that returned: result and store of each
    lastWriter, \* for each file, which of watcher and index tool wrote its nodes last, and the nodes
    latest,     \* for each id, the node given to the upsert_node made last with it
    enr,        \* the call of Service.Enrich: position, inputs, processes started, queries, result
    client,     \* a lsp.Client: seq, mu, pending, the response channels and errChan
    reader,     \* the readLoop goroutine of the client: position, locals, why it stopped
    rpc,        \* the goroutines that call CallWithContext or Notify on the client: position, locals, result
    stdin,      \* the writers whose frame is partly written to the server's stdin
    time,       \* the time of the client's calls, in units of 10 s
    svc,        \* a lsp.Service: mu, clients, and the calls of StartClient
    pool        \* the worker pools of the Enrich runs, and the documents open on the server

storeVars == <<nodes, edges, lastOp>>

lifeVars == <<life, mainPc, idx, qry, lastEnded>>

\* The watcher proper.
watcherVars == <<clock, disk, events, pendingFiles, deb, burst>>

\* The language-server client and the service that owns it.
lspVars == <<client, reader, rpc, stdin, time, svc, pool>>

\* Everything outside the store, the impact query and the lifecycle.
watchVars == <<watcherVars, run, done, lastWriter, latest, enr, lspVars>>

nonStoreVars == <<impact, storeCall, lifeVars, watchVars>>

vars == <<nodes, edges, lastOp, impact, storeCall, life, mainPc, idx, qry, lastEnded, watchVars>>

----------------------------------------------------------------------------
(* Bounds and value sets *)

\* Most edges the store holds in SpecStore.
MaxEdges == 1

\* The source files of the workspace, by absolute path; the root is /w.
Files == {"/w/a.go", "/w/b.go"}

\* filepath.Rel(root, path) for the paths under the root.
Rel(path) ==
    IF path = "/w/a.go" THEN "a.go"
    ELSE IF path = "/w/b.go" THEN "b.go"
    ELSE IF path = "/w/c.go" THEN "c.go"
    ELSE IF path = "/w/d.go" THEN "d.go"
    ELSE IF path = "/w/c.ts" THEN "c.ts"
    ELSE path

Names == {"F", "G"}

Lines == {1, 2}

Relations == {"references", "implements"}

NoFile == "-"

----------------------------------------------------------------------------
(* Nodes and edges *)

\* util.GenerateNodeID: a deterministic fingerprint of (path, name).
GenerateNodeID(path, name) == <<path, name>>

IDs == {GenerateNodeID(Rel(f), n) : f \in Files, n \in Names}

\* util.PathToURI: the file:// URI of an absolute path.
PathToURI(path) == "file://" \o path

\* The text of the line of a definition before its name token.
Keyword(kind) ==
    IF kind = "interface_declaration" THEN "interface "
    ELSE IF kind = "class_declaration" THEN "class "
    ELSE "func "

\* The column of the name token of a function, after "func ".
NameCol == Len(Keyword("function_declaration")) + 1

\* graph.Node as Scanner.Scan fills it for a definition of the kind k: the id
\* is made of the path relative to the root, file_path is the absolute path,
\* the kind is that of the parent of the name token, and the range is that of
\* the name token, from its first column to the column after its last.
KindNode(f, n, l, k) ==
    [id |-> GenerateNodeID(Rel(f), n), name |-> n, kind |-> k,
     file_path |-> f, line_start |-> l, line_end |-> l,
     col_start |-> Len(Keyword(k)) + 1, col_end |-> Len(Keyword(k)) + 1 + Len(n),
     symbol_uri |-> ""]

\* The node of a function.
Node(f, n, l) == KindNode(f, n, l, "function_declaration")

NodeInputs == {Node(f, n, l) : f \in Files, n \in Names, l \in Lines}

Edge(s, t, r) == [source_id |-> s, target_id |-> t, relation |-> r]

EdgeInputs == {Edge(s, t, r) : s \in IDs, t \in IDs, r \in Relations}

NodeIDs(N) == {n.id : n \in N}

FilePaths(N) == {n.file_path : n \in N}

----------------------------------------------------------------------------
(* The schema and the connection (internal/db) *)

\* Whether the connection enforces FOREIGN KEY clauses. The DSN of db.New sets
\* cache, mode and _journal_mode only; go-sqlite3 leaves foreign_keys at
\* SQLite's default, OFF, unless _foreign_keys is given.
ForeignKeysEnforced == FALSE

\* The columns of table nodes that graph.Node carries.
NodeColumns ==
    {"id", "name", "kind", "file_path", "line_start", "line_end", "col_start",
     "col_end", "symbol_uri"}

\* A SET clause that leaves symbol_uri out.
UpdatedColumnsButURI ==
    {"name", "kind", "file_path", "line_start", "line_end", "col_start", "col_end"}

\* The columns named in DO UPDATE SET.
UpdatedColumns ==
    {"name", "kind", "file_path", "line_start", "line_end", "col_start", "col_end",
     "symbol_uri"}

\* The row after ON CONFLICT(id) DO UPDATE SET column = excluded.column.
UpsertRow(old, n) ==
    [c \in NodeColumns |-> IF c \in UpdatedColumns THEN n[c] ELSE old[c]]

\* INSERT ... ON CONFLICT(id) DO UPDATE SET <every column>.
UpsertNodeRows(N, n) ==
    IF n.id \in NodeIDs(N)
    THEN {m \in N : m.id # n.id} \cup {UpsertRow(m, n) : m \in {x \in N : x.id = n.id}}
    ELSE N \cup {n}

\* Whether INSERT INTO edges is accepted: the FOREIGN KEY clauses of the
\* schema reject a row whose endpoint is no node, when they are enforced.
EdgeAccepted(N, e) ==
    ForeignKeysEnforced =>
        (e.source_id \in NodeIDs(N) /\ e.target_id \in NodeIDs(N))

\* INSERT ... ON CONFLICT(source_id, target_id, relation) DO NOTHING.
UpsertEdgeRows(N, E, e) == IF EdgeAccepted(N, e) THEN E \cup {e} ELSE E

\* DELETE FROM nodes WHERE file_path = ?
DeleteNodeRows(N, p) == {n \in N : n.file_path # p}

\* ON DELETE CASCADE of edges.source_id and edges.target_id: the edges left
\* after the nodes with the ids in gone were deleted.
CascadeEdgeRows(E, gone) ==
    IF ForeignKeysEnforced
    THEN {e \in E : e.source_id \notin gone /\ e.target_id \notin gone}
    ELSE E

\* StaleFiles with the test of keep inverted: the files found by the scan are
\* the ones deleted.
StaleFilesInverted(N, keep) == {f \in FilePaths(N) : f \in keep}

\* Store.PruneStaleFiles: the files of the table that are not in keep are
\* deleted one by one with DeleteNodesByFile.
StaleFiles(N, keep) == {f \in FilePaths(N) : f \notin keep}

\* Store.BulkUpsertNodes: the rows of the batch upserted in order, in one
\* transaction.
RECURSIVE BulkUpsertNodeRows(_, _)
BulkUpsertNodeRows(N, ns) ==
    IF ns = <<>> THEN N
    ELSE BulkUpsertNodeRows(UpsertNodeRows(N, Head(ns)), Tail(ns))

\* Store.BulkUpsertEdges: the rows of the batch inserted in order, in one
\* transaction, conflicts ignored.
RECURSIVE BulkUpsertEdgeRows(_, _, _)
BulkUpsertEdgeRows(N, E, es) ==
    IF es = <<>> THEN E
    ELSE BulkUpsertEdgeRows(N, UpsertEdgeRows(N, E, Head(es)), Tail(es))

\* The index handler's "COLLECT VALID FILES" loop: the distinct file paths
\* of a node batch.
RECURSIVE ValidFiles(_)
ValidFiles(ns) ==
    IF ns = <<>> THEN {} ELSE {Head(ns).file_path} \cup ValidFiles(Tail(ns))

----------------------------------------------------------------------------
(* Store.FindImpact *)

NoName == "-"

ImpactIdle ==
    [pc |-> "idle", name |-> NoName, targets |-> {}, queue |-> {}, seen |-> {},
     steps |-> 0, unique |-> {}, result |-> {}]

\* SELECT id FROM nodes WHERE name = ?
TargetIDs(N, name) == {n.id : n \in {m \in N : m.name = name}}

\* The base case of the recursive query: SELECT source_id FROM edges WHERE
\* target_id = ?
DirectSources(E, t) == {e.source_id : e \in {x \in E : x.target_id = t}}

\* RecursiveStepRows with the recursive SELECT left out: only the direct
\* dependents are found.
RecursiveStepRowsNone(E, seen, r) == {}

\* RecursiveStepRows with UNION ALL for UNION: rows generated before are
\* generated again.
RecursiveStepRowsUnionAll(E, seen, r) == DirectSources(E, r)

\* The recursive step for one row r taken off the queue: the source_id of the
\* edges whose target_id is r; UNION drops the rows generated before.
RecursiveStepRows(E, seen, r) == DirectSources(E, r) \ seen

\* The final SELECT DISTINCT n.* FROM nodes n JOIN impacted i ON n.id =
\* i.source_id.
JoinNodes(N, impacted) == {n \in N : n.id \in impacted}

\* uniqueNodes[n.ID] = n for every row of one target's query.
MergeUnique(unique, rows) == {u \in unique : u.id \notin NodeIDs(rows)} \cup rows

\* rows, err := QueryContext("SELECT id FROM nodes WHERE name = ?"); with no
\* target the call returns the empty list.
FindImpactStart(name) ==
    /\ impact.pc = "idle"
    /\ impact' = IF TargetIDs(nodes, name) = {}
                 THEN [ImpactIdle EXCEPT !.pc = "done", !.name = name]
                 ELSE [ImpactIdle EXCEPT !.pc = "select", !.name = name,
                                         !.targets = TargetIDs(nodes, name)]
    /\ UNCHANGED <<storeVars, storeCall, lifeVars, watchVars>>

\* for _, targetID := range targetIDs: the recursive query starts with its
\* base case.
FindImpactBase(t) ==
    /\ impact.pc = "select"
    /\ t \in impact.targets
    /\ impact' = [impact EXCEPT !.pc = "cte", !.targets = @ \ {t},
                                !.queue = DirectSources(edges, t),
                                !.seen = DirectSources(edges, t),
                                !.steps = 0]
    /\ UNCHANGED <<storeVars, storeCall, lifeVars, watchVars>>

\* One row leaves the queue and the recursive step runs on it.
FindImpactStep(r) ==
    /\ impact.pc = "cte"
    /\ r \in impact.queue
    /\ impact' = [impact EXCEPT
                    !.queue = (@ \ {r}) \cup RecursiveStepRows(edges, impact.seen, r),
                    !.seen = @ \cup RecursiveStepRows(edges, impact.seen, r),
                    !.steps = @ + 1]
    /\ UNCHANGED <<storeVars, storeCall, lifeVars, watchVars>>

\* The queue is empty: the rows are joined with nodes and put in uniqueNodes;
\* after the last target the map becomes the result.
FindImpactCollect ==
    /\ impact.pc = "cte"
    /\ impact.queue = {}
    /\ impact' = [impact EXCEPT
                    !.pc = IF impact.targets = {} THEN "done" ELSE "select",
                    !.unique = MergeUnique(@, JoinNodes(nodes, impact.seen)),
                    !.result = IF impact.targets = {}
                               THEN MergeUnique(impact.unique, JoinNodes(nodes, impact.seen))
                               ELSE @]
    /\ UNCHANGED <<storeVars, storeCall, lifeVars, watchVars>>

FindImpactReturn ==
    /\ impact.pc = "done"
    /\ impact' = ImpactIdle
    /\ UNCHANGED <<storeVars, storeCall, lifeVars, watchVars>>

\* The whole recursive query for one target, as one statement.
RECURSIVE ImpactedRows(_, _, _)
ImpactedRows(E, queue, seen) ==
    IF queue = {} THEN seen
    ELSE LET r == CHOOSE x \in queue : TRUE
         IN ImpactedRows(E, (queue \ {r}) \cup RecursiveStepRows(E, seen, r),
                         seen \cup RecursiveStepRows(E, seen, r))

\* Store.FindImpact as one call on a store that no writer changes meanwhile.
FindImpact(N, E, name) ==
    UNION {JoinNodes(N, ImpactedRows(E, DirectSources(E, t), DirectSources(E, t)))
           : t \in TargetIDs(N, name)}

----------------------------------------------------------------------------
(* The index lifecycle of the server: values *)

IndexCalls == {"i1", "i2"}

Queriers == {"q1"}

\* The callers of the store calls that run more than one statement: a caller
\* of the store alone, main(), the index tool call that scans the disk, and
\* the index tool calls.
StoreCallers == {"store", "main", "run"} \cup IndexCalls

\* A caller with no such call in progress.
StoreCallIdle == [op |-> "-", keep |-> {}, todo |-> {}, ids |-> {}, batch |-> <<>>]

StoreCallsIdle == [c \in StoreCallers |-> StoreCallIdle]

\* PruneStaleFiles after SELECT DISTINCT file_path FROM nodes on the rows N:
\* of dbFiles, the files not in keep are still to be deleted. ids are the
\* nodes deleted so far, batch the batch of the bulk upsert before the call.
Pruning(N, keep, batch) ==
    [op |-> "PruneStaleFiles", keep |-> keep, todo |-> StaleFiles(N, keep), ids |-> {},
     batch |-> batch]

\* One turn of the loop of the PruneStaleFiles of the caller c, on the file f
\* of dbFiles: DeleteNodesByFile(f) deletes the rows the table holds for f
\* now; after the last file the call returns.
PruneTurn(c, f) ==
    /\ nodes' = DeleteNodeRows(nodes, f)
    /\ edges' = CascadeEdgeRows(edges, NodeIDs(nodes) \ NodeIDs(DeleteNodeRows(nodes, f)))
    /\ storeCall' = [storeCall EXCEPT ![c] =
                        IF @.todo = {f} THEN StoreCallIdle
                        ELSE [@ EXCEPT !.todo = @ \ {f},
                                       !.ids = @ \cup (NodeIDs(nodes)
                                                        \ NodeIDs(DeleteNodeRows(nodes, f)))]]

\* A turn whose DeleteNodesByFile fails: PruneStaleFiles returns the error at
\* once, the files deleted in the turns before stay deleted.
PruneTurnFails(c) ==
    /\ storeCall' = [storeCall EXCEPT ![c] = StoreCallIdle]
    /\ UNCHANGED <<nodes, edges>>

QueryTools == {"get_symbols_in_file", "find_impact", "get_symbol_location"}

NoErr == "nil"

NoTool == "-"

DeadlineExceeded == "context deadline exceeded"

\* The channels that exist at a time are numbered: the current ready signal
\* and the earlier ones a wait still holds. A channel nothing refers to is
\* forgotten and its number is used again.
Channels == 0..(Cardinality(Queriers) + 1)

\* The lifecycle fields of a constructed Server: status not_started, no
\* error, and a ready signal that has not fired; closed holds the channels
\* that were closed.
NewLife == [status |-> "not_started", err |-> NoErr, ready |-> 0, closed |-> {}]

\* Server.setIndexStatus: status and error are stored under the lock; the
\* ready signal is latched when the status goes from in_progress to ready or
\* failed.
SetIndexStatus(l, status, err) ==
    [l EXCEPT !.status = status,
              !.err = err,
              !.closed = IF l.status = "in_progress" /\ status \in {"ready", "failed"}
                         THEN @ \cup {l.ready} ELSE @]

\* The re-arm of the index handler: s.indexReady = make(chan struct{}), a
\* channel that is open and is none of those held: the old signal and the
\* channels in waiting, which the waits are on.
FreshChannel(held) == CHOOSE c \in Channels \ held : \A d \in Channels \ held : c <= d

Rearm(l, waiting) ==
    [l EXCEPT !.ready = FreshChannel({l.ready} \cup waiting),
              !.closed = @ \cap waiting]

\* A wait has returned: the channels still referred to are the current
\* signal and those in waiting.
Forget(l, waiting) == [l EXCEPT !.closed = @ \cap ({l.ready} \cup waiting)]

\* The failure paths of the index handler:
\* s.setIndexStatus(IndexStatusFailed, fmt.Errorf(msg, err)).
FailWith(l, msg) == SetIndexStatus(l, "failed", msg)

\* A query handler that takes every wait for a successful one.
WaitFailedNever(err) == FALSE

\* The test of the query handlers on the wait:
\* if err := s.WaitForIndex(waitCtx); err != nil.
WaitFailed(err) == err # NoErr

\* textResult and errorResult, with the rows a query result is made of.
TextResult(text, rows) == [isError |-> FALSE, text |-> text, detail |-> NoErr, rows |-> rows]

ErrorResult(text, detail) == [isError |-> TRUE, text |-> text, detail |-> detail, rows |-> <<>>]

NoResult == [isError |-> FALSE, text |-> "-", detail |-> NoErr, rows |-> <<>>]

\* The error result of a query handler whose wait failed, from what
\* GetIndexStatus returned.
WaitFailureResult(status, indexErr, waitErr) ==
    IF indexErr # NoErr THEN ErrorResult("Indexing failed", indexErr)
    ELSE IF status = "in_progress"
         THEN ErrorResult("Indexing in progress, please try again", NoErr)
         ELSE ErrorResult("Indexing wait failed", waitErr)

NoRun == [status |-> "none", err |-> NoErr]

\* An index call between two calls: wrote tells whether it has written to
\* the store, pruneFailed whether its PruneStaleFiles returned an error.
IndexIdle == [pc |-> "idle", wrote |-> FALSE, pruneFailed |-> FALSE, result |-> NoResult]

QueryIdle ==
    [pc |-> "idle", tool |-> NoTool, ch |-> 0, blocked |-> FALSE, endedSince |-> FALSE,
     afterFailed |-> FALSE, waitErr |-> NoErr, readStore |-> FALSE, targets |-> {},
     unique |-> {}, result |-> NoResult]

\* main() waits in its select and the server takes calls.
Serving == mainPc \in {"serving", "servingNoWatch"}

\* The process has not ended: the goroutines of the handlers and of the
\* watcher make their steps.
ProcessRuns == mainPc \notin {"fatal", "exited"}

\* The lifecycle part of the state in the specifications that do not run it.
LifeUnused ==
    /\ life = NewLife
    /\ mainPc = "serving"
    /\ idx = [i \in IndexCalls |-> IndexIdle]
    /\ qry = [q \in Queriers |-> QueryIdle]
    /\ lastEnded = NoRun

----------------------------------------------------------------------------
(* The watcher's values (internal/watcher) *)

\* Last instant of the clock. The unit of time is 100 ms, the period of the
\* ticker of processDebounced.
MaxTime == 8

\* debounceTime of watcher.New: 500 ms.
DebounceTime == 5

\* Most events fsnotify holds undelivered.
MaxQueue == 1

\* Most events of one burst that are counted.
MaxBurst == 3

\* The files under the root that events are reported for: a supported source
\* file, a file that is no source file, and a source file under a directory
\* named in .gitignore.
WatchFiles == {"/w/a.go", "/w/notes.txt", "/w/out/gen.go"}

\* A directory under the root whose name ends in a supported extension.
WatchDirs == {"/w/x.js"}

\* The paths under the root that events are reported for.
WatchPaths == WatchFiles \cup WatchDirs

\* filepath.Ext(path), lower-cased.
Ext(path) ==
    IF path = "/w/notes.txt" THEN ".txt" ELSE IF path = "/w/x.js" THEN ".js" ELSE ".go"

SupportedExts == {".go", ".py", ".js", ".ts", ".tsx", ".jsx", ".lua"}

\* Watcher.isSourceFile.
IsSourceFile(path) == Ext(path) \in SupportedExts

\* ignorer.MatchesPath(relPath) with a .gitignore that holds the line out/.
MatchesIgnore(path) == path = "/w/out/gen.go"

\* The paths whose events reach the switch of handleEvent, files and
\* directories.
SwitchPaths == {p \in WatchPaths : IsSourceFile(p) /\ ~MatchesIgnore(p)}

\* The files among them.
SourcePaths == SwitchPaths \cap WatchFiles

\* The bits of fsnotify.Op.
EventOps == {"write", "create", "remove", "rename", "chmod"}

\* The values of event.Op: the masks of one bit or more.
EventMasks == SUBSET EventOps \ {{}}

\* An fsnotify.Event: Name and Op.
Event(path, ops) == [path |-> path, ops |-> ops]

\* The case the switch of handleEvent takes on the mask ops: the first whose
\* bit is set, Write before Create before Remove before Rename.
SwitchCase(ops) ==
    IF "write" \in ops THEN "write"
    ELSE IF "create" \in ops THEN "create"
    ELSE IF "remove" \in ops THEN "remove"
    ELSE IF "rename" \in ops THEN "rename"
    ELSE "none"

\* A definition of a source file: its name, the line of its name token and
\* the kind of the syntax node that holds the name token.
KindDef(name, line, kind) == [name |-> name, line |-> line, kind |-> kind]

\* A function.
Def(name, line) == KindDef(name, line, "function_declaration")

\* A call: the line of the call site, the function whose body holds it and
\* the name called.
Call(line, caller, callee) == [line |-> line, caller |-> caller, callee |-> callee]

\* An implementation of the interface called iface: the line of the name
\* token of the type that implements it.
Impl(line, iface) == [line |-> line, iface |-> iface]

\* What a file of the disk is: whether it exists, the definitions it holds,
\* the calls it makes and the implementations of interfaces it holds.
NoContent == [exists |-> FALSE, defs |-> <<>>, calls |-> {}, impls |-> {}]

ContentImplementing(defs, calls, impls) ==
    [exists |-> TRUE, defs |-> defs, calls |-> calls, impls |-> impls]

ContentCalling(defs, calls) == ContentImplementing(defs, calls, {})

Content(defs) == ContentCalling(defs, {})

\* The contents written to the watched file: F alone, and G with F, which
\* calls G on the line of its own name token.
Contents ==
    {Content(<<Def("F", 1)>>),
     ContentCalling(<<Def("G", 1), Def("F", 2)>>, {Call(2, "F", "G")})}

\* graph.Node as Scanner.ScanFile fills it: the id is made of the path it was
\* given, which the watcher gives as fsnotify reported it; the kind is the
\* name of the capture.
FileNode(f, n, l) ==
    [id |-> GenerateNodeID(f, n), name |-> n, kind |-> "name",
     file_path |-> f, line_start |-> l, line_end |-> l,
     col_start |-> NameCol, col_end |-> NameCol + Len(n), symbol_uri |-> PathToURI(f)]

\* Scanner.ScanFile on a readable file: one node for each capture.
ScanFileRows(path, content) ==
    [i \in 1..Len(content.defs) |->
        FileNode(path, content.defs[i].name, content.defs[i].line)]

\* now.After(deadline) that holds at every tick.
DeadlinePassedAlways(now, deadline) == TRUE

\* now.After(deadline) of processPendingFiles.
DeadlinePassed(now, deadline) == now > deadline

\* The debounce goroutine between two ticks.
DebIdle ==
    [pc |-> "idle", ready |-> <<>>, scanned |-> <<>>, k |-> 0, todo |-> {}, openedDocs |-> {},
     wk |-> {}, found |-> {}, count |-> 0, err |-> "nil", enrichErr |-> FALSE]

\* A burst of Write/Create events on a path: the number of events handled
\* since the pending entry was made, the instant of the last of them, the
\* number of times the entry was flushed and the instant of the flush, and
\* the number of times reindexFile was entered for the flushed entry.
NoBurst == [n |-> 0, last |-> 0, flushes |-> 0, flushedAt |-> 0, reindexes |-> 0]

\* The languages getLang gives for the supported extensions.
Langs == {"go", "python", "javascript", "typescript"}

\* getLanguageServerCommand with the default configuration.
ServerCommand(lang) ==
    IF lang = "go" THEN "gopls"
    ELSE IF lang = "python" THEN "pyright-langserver"
    ELSE "typescript-language-server"

ServerCommands == {ServerCommand(l) : l \in Langs}

\* A validation that finds every executable.
MissingServersNone(required, installed) == {}

\* validateLanguageServers: the languages whose command isCommandAvailable
\* does not find.
MissingServers(required, installed) ==
    {l \in required : ServerCommand(l) \notin installed}

\* The error Enrich returns: its text and the languages it names.
EnrichError(text, langs) == [text |-> text, langs |-> langs]

\* No call of Enrich: nothing required, started, queried or returned.
\* clients holds the languages with an entry in s.clients and initialized
\* those whose initialize has succeeded; both outlive a call.
EnrichIdle ==
    [pc |-> "idle", required |-> {}, installed |-> {}, started |-> {},
     queried |-> {}, err |-> EnrichError("nil", {}), edges |-> {},
     clients |-> {}, initialized |-> {}]

\* Most index tool calls on the disk.
MaxRuns == 2

\* The index tool between two calls.
RunIdle ==
    [pc |-> "idle", batch |-> <<>>, todo |-> {}, openedDocs |-> {}, wk |-> {}, found |-> {},
     count |-> 0, faults |-> {}]

\* Nothing has written the nodes of the file since the start.
NoWriter == [by |-> "none", rows |-> {}]

----------------------------------------------------------------------------
(* The language-server client (internal/lsp): values *)

\* Most requests the client issues.
MaxSeq == 2

\* Most frames and errors the reader takes from the server's output.
MaxFrames == 2

\* The last time of the model.
MaxNow == 4

\* The goroutines that call CallWithContext on the client (the enrichment
\* workers, StartClient) and the one that calls Notify (didOpen, didClose).
Callers == {"w1", "w2"}

Notifiers == {"n1"}

Writers == Callers \cup Notifiers

Methods == {"initialize", "textDocument/references"}

\* The method of a request made with Client.Call, which no wrapper of the
\* client sends.
DirectMethod == "workspace/symbol"

\* sync.Mutex: the goroutine that holds it, or Unlocked.
Unlocked == "unlocked"

\* A context: whether it carries a deadline, and the deadline.
Background == [hasDeadline |-> FALSE, deadline |-> 0]

WithDeadline(t) == [hasDeadline |-> TRUE, deadline |-> t]

\* Contexts given to the calls: none with a deadline, and one with.
ParentContexts == {Background, WithDeadline(2)}

\* context.WithTimeout(ctx, timeout) at time t: the earlier of the parent's
\* deadline and t + timeout.
WithTimeout(ctx, t, timeout) ==
    IF ctx.hasDeadline /\ ctx.deadline <= t + timeout THEN ctx
    ELSE WithDeadline(t + timeout)

\* The 10 seconds of the requests and the 30 seconds of initialize.
RequestTimeout == 1

InitializeTimeout == 3

\* ensureTimeout: a context without deadline gets one, timeout from now.
EnsureTimeout(ctx, t, timeout) ==
    IF ctx.hasDeadline THEN ctx ELSE WithTimeout(ctx, t, timeout)

\* The context CallWithContext is given: StartClient wraps the context of
\* initialize in a timeout of 30 seconds, GetReferences and the other
\* requests call ensureTimeout with 10 seconds, and Client.Call hands on
\* the context it made.
CallContext(method, ctx, t) ==
    IF method = "initialize" THEN WithTimeout(ctx, t, InitializeTimeout)
    ELSE IF method = DirectMethod THEN ctx
    ELSE EnsureTimeout(ctx, t, RequestTimeout)

\* ctx.Done() of a call's context at time t.
CtxDone(ctx, cancelled, t) == cancelled \/ (ctx.hasDeadline /\ t >= ctx.deadline)

\* The id of a response frame is a JSON number, decoded as a float64. The
\* model counts it in halves: 2 is the id 1, 3 is the id 1.5.
FrameIDs == 2..(2 * MaxSeq + 1)

FrameIDOf(id) == 2 * id

\* The conversion with the fraction kept, which no int holds.
IntOfFloatExact(h) == IF h % 2 = 0 THEN h \div 2 ELSE 0

\* int(v) of a float64 v: the fraction is dropped.
IntOfFloat(h) == h \div 2

\* responseOrError, and the frame it was made from.
NoResponse == [data |-> "-", err |-> "-", frame |-> 0]

ResponseOrError(rpcError, h) ==
    [data |-> IF rpcError THEN "null" ELSE "result",
     err |-> IF rpcError THEN "RPC error" ELSE NoErr,
     frame |-> h]

\* The errors ReadMessage returns: io.EOF, an error of a closed pipe, and a
\* frame that cannot be read.
ReadErrors == {"EOF", "file already closed", "invalid header"}

\* readLoop: err != io.EOF && !strings.Contains(err.Error(), "closed")
IsPublished(err) == err # "EOF" /\ err # "file already closed"

\* select { case c.errChan <- err: default: } on the channel of capacity 1.
Publish(errChan, err) == IF errChan = NoErr THEN err ELSE errChan

\* &Client{seq: 0, pending: ..., errChan: make(chan error, 1)}, with the
\* channels of the calls, by request id.
NewClient ==
    [seq |-> 0, mu |-> Unlocked, pending |-> {},
     ch |-> [i \in 1..MaxSeq |-> NoResponse], errChan |-> NoErr]

\* readLoop at ReadMessage, no frame read yet.
ReaderIdle ==
    [pc |-> "read", id |-> 0, resp |-> NoResponse, frames |-> 0, why |-> NoErr,
     published |-> FALSE]

\* What a call returned: data and error, and the frame of the response.
NoOutcome == [data |-> "-", err |-> "-", frame |-> 0]

Outcome(err) == [data |-> "nil", err |-> err, frame |-> 0]

\* A goroutine between two calls. own tells whether the caller's context
\* had no deadline, started, ended and cancelAt are the times of the call,
\* its return and its cancellation, and stopped tells whether the reader had
\* stopped on an error when the call was made or while it was pending, and
\* which error.
CallIdle ==
    [pc |-> "idle", method |-> "-", id |-> 0, ctx |-> Background, own |-> FALSE,
     cancelled |-> FALSE, cancelAt |-> 0, started |-> 0, ended |-> 0,
     result |-> NoOutcome, stopped |-> NoErr]

\* The languages of the service's clients in the model.
StartLangs == {"go", "python"}

StartCallers == {"s1", "s2"}

\* Most child processes spawned for one language.
MaxSpawn == 2

\* What ended a child process: nothing yet, its own exit, Shutdown, or the
\* context its command was made with.
StillRuns == "-"

\* s.clients[lang]: whether the entry exists, whether cmd.Process is set,
\* whether the process still runs and whether initialize has succeeded; ctx
\* is the caller whose context the command was made with and endedBy what
\* ended the process.
NoClient ==
    [registered |-> FALSE, process |-> FALSE, running |-> FALSE, initialized |-> FALSE,
     ctx |-> "-", endedBy |-> StillRuns]

\* A test that never finds the client.
AlreadyRunningNever(c) == FALSE

\* StartClient: if c, ok := s.clients[lang]; ok && c.cmd.Process != nil
AlreadyRunning(c) == c.registered /\ c.process

\* A call of StartClient: its position and language; found tells whether the
\* language's process was running when the call looked, spawned and
\* initialized whether the call spawned a process and completed initialize.
StartIdle ==
    [pc |-> "idle", lang |-> "-", found |-> FALSE, spawned |-> FALSE,
     initialized |-> FALSE, err |-> "-"]

\* NewService: no client. ctxDone holds the callers whose context is done.
NewService ==
    [mu |-> Unlocked,
     ctxDone |-> {},
     clients |-> [l \in StartLangs |-> NoClient],
     spawned |-> [l \in StartLangs |-> 0],
     st |-> [s \in StartCallers |-> StartIdle]]

\* The worker pool of Enrich: numWorkers, which is 10 in the code.
NumWorkers == 2

PoolWorkers == 1..NumWorkers

\* Most nodes in the batch given to one Enrich run.
MaxPool == 3

\* Most locations in a references or an implementation response.
MaxLocs == 1

\* The Enrich runs that may overlap: an index tool call and a watcher reindex.
PoolRuns == {"r1", "r2"}

\* The files of the nodes given to Enrich.
PoolPaths == {"/w/a.go", "/w/b.py"}

PoolURIs == {PathToURI(f) : f \in PoolPaths}

\* util.URIToPath on the URIs util.PathToURI made.
URIToPath(uri) == CHOOSE f \in PoolPaths : PathToURI(f) = uri

\* len(path) > k && path[len(path)-k:] == ext, for an extension of k bytes.
HasExt(path, k, ext) ==
    Len(path) > k /\ SubSeq(path, Len(path) - k + 1, Len(path)) = ext

\* getLang: the language of the extension of the path, "" for any other.
GetLang(path) ==
    IF HasExt(path, 3, ".go") THEN "go"
    ELSE IF HasExt(path, 3, ".py") THEN "python"
    ELSE IF HasExt(path, 3, ".js") THEN "javascript"
    ELSE IF HasExt(path, 3, ".ts") THEN "typescript"
    ELSE IF HasExt(path, 4, ".tsx") THEN "typescript"
    ELSE IF HasExt(path, 4, ".jsx") THEN "javascript"
    ELSE IF HasExt(path, 4, ".lua") THEN "lua"
    ELSE IF HasExt(path, 4, ".zig") THEN "zig"
    ELSE ""

\* docsMu held by no worker.
NoWorker == 0

\* A worker at the head of its loop, with no node taken.
WorkerIdle == [pc |-> "range", n |-> 0, isOpen |-> FALSE, nodeEdges |-> <<>>]

\* One Enrich run from the making of openedDocs on: its position, the nodes
\* given, how many were fed, the two channels, docsMu, openedDocs, the
\* workers and the edges collected. taken tells for each node how many
\* times a worker took it, produced the edge lists sent with their node,
\* opens and closes the didOpen and didClose sent for each URI, and sawOpen
\* the URIs a worker found open already.
PoolIdle ==
    [pc |-> "idle", batch |-> <<>>, fed |-> 0,
     nodeChan |-> <<>>, nodeClosed |-> FALSE,
     edgeChan |-> <<>>, edgeClosed |-> FALSE,
     docsMu |-> NoWorker, openedDocs |-> {},
     wk |-> [w \in PoolWorkers |-> WorkerIdle],
     edges |-> <<>>,
     taken |-> <<>>, produced |-> <<>>, sawOpen |-> {},
     opens |-> [u \in PoolURIs |-> 0], closes |-> [u \in PoolURIs |-> 0]]

\* No Enrich run in its pool. clients holds the languages with a client,
\* server the URIs the language server holds open, reopened the URIs for
\* which it got a didOpen while it held them open, and closedInUse the URIs
\* it got a didClose for while another run still had queries on them.
PoolUnused ==
    [clients |-> {}, server |-> {}, reopened |-> {}, closedInUse |-> {},
     r |-> [x \in PoolRuns |-> PoolIdle]]

\* The client part of the state in the specifications that do not run it.
ClientUnused ==
    /\ client = NewClient
    /\ reader = ReaderIdle
    /\ rpc = [w \in Writers |-> CallIdle]
    /\ stdin = {}
    /\ time = 0

LspUnused == ClientUnused /\ svc = NewService /\ pool = PoolUnused

\* The watcher, the index run on the disk and Enrich, none of them running.
WatchIdle ==
    /\ clock = 0
    /\ disk = [f \in SourcePaths |-> NoContent]
    /\ events = <<>>
    /\ pendingFiles = {}
    /\ deb = DebIdle
    /\ burst = [f \in SourcePaths |-> NoBurst]
    /\ run = RunIdle
    /\ done = <<>>
    /\ lastWriter = [f \in SourcePaths |-> NoWriter]
    /\ latest = {}
    /\ enr = EnrichIdle

WatchUnused == WatchIdle /\ LspUnused

----------------------------------------------------------------------------
(* Store operations as actions *)

\* lastOp: the operation, the file it was given, the ids of the nodes it
\* deleted, whether it succeeded, the batch of the bulk upsert (kept through
\* the prune that follows it) and the keep list of a prune.
Op(name, file, ids, ok, batch, keep) ==
    [op |-> name, file |-> file, ids |-> ids, ok |-> ok, batch |-> batch, keep |-> keep]

UpsertNode(n) ==
    /\ UNCHANGED nonStoreVars
    /\ nodes' = UpsertNodeRows(nodes, n)
    /\ lastOp' = Op("UpsertNode", NoFile, {}, TRUE, <<>>, {})
    /\ UNCHANGED edges

UpsertEdge(e) ==
    /\ UNCHANGED nonStoreVars
    /\ Cardinality(edges \cup {e}) <= MaxEdges
    /\ edges' = UpsertEdgeRows(nodes, edges, e)
    /\ lastOp' = Op("UpsertEdge", NoFile, {}, EdgeAccepted(nodes, e), <<>>, {})
    /\ UNCHANGED nodes

DeleteNodesByFile(p) ==
    /\ UNCHANGED nonStoreVars
    /\ nodes' = DeleteNodeRows(nodes, p)
    /\ edges' = CascadeEdgeRows(edges, NodeIDs(nodes) \ NodeIDs(DeleteNodeRows(nodes, p)))
    /\ lastOp' = Op("DeleteNodesByFile", p,
                    NodeIDs(nodes) \ NodeIDs(DeleteNodeRows(nodes, p)), TRUE, <<>>, {})

\* Store.PruneStaleFiles, from its call to the end of its SELECT: an error of
\* the query is returned; with no stale file in dbFiles the loop deletes
\* nothing and the call returns.
PruneStaleFiles(keep, ok) ==
    /\ storeCall["store"] = StoreCallIdle
    /\ IF ok /\ StaleFiles(nodes, keep) # {}
       THEN /\ storeCall' = [storeCall EXCEPT !["store"] =
                                Pruning(nodes, keep,
                                        IF lastOp.op = "BulkUpsertNodes" THEN lastOp.batch
                                        ELSE <<>>)]
            /\ UNCHANGED lastOp
       ELSE /\ lastOp' = Op("PruneStaleFiles", NoFile, {}, ok,
                            IF lastOp.op = "BulkUpsertNodes" THEN lastOp.batch ELSE <<>>, keep)
            /\ UNCHANGED storeCall
    /\ UNCHANGED <<nodes, edges, impact, lifeVars, watchVars>>

\* Store.PruneStaleFiles, one turn of its loop: DeleteNodesByFile(f) for a
\* stale file f of dbFiles, a statement of its own. An error ends the call
\* with the files deleted so far gone; after the last file the call returns.
PruneDelete(f, ok) ==
    /\ storeCall["store"].op = "PruneStaleFiles"
    /\ f \in storeCall["store"].todo
    /\ IF ok
       THEN /\ PruneTurn("store", f)
            /\ lastOp' = IF storeCall["store"].todo = {f}
                         THEN Op("PruneStaleFiles", NoFile,
                                 storeCall["store"].ids
                                     \cup (NodeIDs(nodes) \ NodeIDs(DeleteNodeRows(nodes, f))),
                                 TRUE, storeCall["store"].batch, storeCall["store"].keep)
                         ELSE Op("DeleteNodesByFile", f,
                                 NodeIDs(nodes) \ NodeIDs(DeleteNodeRows(nodes, f)),
                                 TRUE, <<>>, {})
       ELSE /\ PruneTurnFails("store")
            /\ lastOp' = Op("PruneStaleFiles", f, storeCall["store"].ids, FALSE,
                            storeCall["store"].batch, storeCall["store"].keep)
    /\ UNCHANGED <<impact, lifeVars, watchVars>>

BulkUpsertNodes(ns) ==
    /\ UNCHANGED nonStoreVars
    /\ nodes' = BulkUpsertNodeRows(nodes, ns)
    /\ lastOp' = Op("BulkUpsertNodes", NoFile, {}, TRUE, ns, {})
    /\ UNCHANGED edges

\* Store.Clear, its first statement: DELETE FROM edges; an error is returned.
Clear(ok) ==
    /\ storeCall["store"] = StoreCallIdle
    /\ IF ok
       THEN /\ edges' = {}
            /\ storeCall' = [storeCall EXCEPT !["store"].op = "Clear"]
            /\ UNCHANGED lastOp
       ELSE /\ lastOp' = Op("Clear", NoFile, {}, FALSE, <<>>, {})
            /\ UNCHANGED <<edges, storeCall>>
    /\ UNCHANGED <<nodes, impact, lifeVars, watchVars>>

\* Store.Clear, its second statement: DELETE FROM nodes, and the return.
ClearNodes(ok) ==
    /\ storeCall["store"].op = "Clear"
    /\ nodes' = IF ok THEN {} ELSE nodes
    /\ edges' = IF ok THEN CascadeEdgeRows(edges, NodeIDs(nodes)) ELSE edges
    /\ lastOp' = Op("Clear", NoFile, {}, ok, <<>>, {})
    /\ storeCall' = [storeCall EXCEPT !["store"] = StoreCallIdle]
    /\ UNCHANGED <<impact, lifeVars, watchVars>>

----------------------------------------------------------------------------
(* SpecStore: any sequence of store operations on an empty database *)

InitStore ==
    /\ impact = ImpactIdle
    /\ storeCall = StoreCallsIdle
    /\ WatchUnused
    /\ LifeUnused
    /\ nodes = {}
    /\ edges = {}
    /\ lastOp = Op("New", NoFile, {}, TRUE, <<>>, {})

NextStore ==
    \/ \E n \in NodeInputs : UpsertNode(n)
    \/ \E e \in EdgeInputs : UpsertEdge(e)
    \/ \E p \in Files : DeleteNodesByFile(p)
    \/ \E keep \in SUBSET Files, ok \in BOOLEAN : PruneStaleFiles(keep, ok)
    \/ \E f \in Files, ok \in BOOLEAN : PruneDelete(f, ok)
    \/ \E ok \in BOOLEAN : Clear(ok)
    \/ \E ok \in BOOLEAN : ClearNodes(ok)

SpecStore == InitStore /\ [][NextStore]_vars

\* C6: after delete_nodes_by_file(p) has returned successfully, no edge has
\* as its source or its target a node that had file_path = p.
DeleteCascadesToEdges ==
    (lastOp.op = "DeleteNodesByFile" /\ lastOp.ok) =>
        \A e \in edges :
            e.source_id \notin lastOp.ids /\ e.target_id \notin lastOp.ids

\* C7: in every reachable state of the store, the source_id and the
\* target_id of every edge are ids of nodes the store holds.
EdgeEndpointsExist ==
    \A e \in edges :
        e.source_id \in NodeIDs(nodes) /\ e.target_id \in NodeIDs(nodes)

----------------------------------------------------------------------------
(* SpecPrune: the index run's bulk upsert followed by its prune, from any *)
(* store content *)

\* Longest node batch of a bulk upsert.
MaxBatch == 2

\* The contents table nodes can have: at most one row per id.
StoreContents ==
    {N \in SUBSET NodeInputs : \A a, b \in N : a.id = b.id => a = b}

RECURSIVE SeqsUpTo(_, _)
SeqsUpTo(S, k) ==
    IF k = 0 THEN {<<>>}
    ELSE SeqsUpTo(S, k - 1)
         \cup {Append(q, x) : q \in {r \in SeqsUpTo(S, k - 1) : Len(r) = k - 1}, x \in S}

Batches == SeqsUpTo(NodeInputs, MaxBatch)

InitPrune ==
    /\ impact = ImpactIdle
    /\ storeCall = StoreCallsIdle
    /\ WatchUnused
    /\ LifeUnused
    /\ nodes \in StoreContents
    /\ edges = {}
    /\ lastOp = Op("New", NoFile, {}, TRUE, <<>>, {})

\* tools.go 76-85: the batch is stored, then the files not in it are pruned.
\* One run is made on each store content: the store a run leaves is one of
\* the contents the next would start on.
IndexBulkUpsert(ns) ==
    /\ lastOp.op = "New"
    /\ storeCall["store"] = StoreCallIdle
    /\ BulkUpsertNodes(ns)

\* tools.go 82: PruneStaleFiles(ctx, validFileList), to the end of its
\* SELECT.
IndexPrune(ok) ==
    /\ lastOp.op = "BulkUpsertNodes"
    /\ PruneStaleFiles(ValidFiles(lastOp.batch), ok)

\* One turn of the loop of that PruneStaleFiles.
IndexPruneTurn(f, ok) == PruneDelete(f, ok)

NextPrune ==
    \/ \E ns \in Batches : IndexBulkUpsert(ns)
    \/ \E ok \in BOOLEAN : IndexPrune(ok)
    \/ \E f \in Files, ok \in BOOLEAN : IndexPruneTurn(f, ok)

SpecPrune == InitPrune /\ [][NextPrune]_vars

\* C8: after bulk_upsert_nodes(ns) followed by
\* prune_stale_files(distinct_file_paths(ns)), the file_path values present
\* in the store are exactly distinct_file_paths(ns).
PruneLeavesExactlyBatchFiles ==
    (lastOp.op = "PruneStaleFiles" /\ lastOp.ok /\ lastOp.keep = ValidFiles(lastOp.batch)) =>
        FilePaths(nodes) = {lastOp.batch[i].file_path : i \in 1..Len(lastOp.batch)}

\* A prune after a two-node batch that removed the nodes of a file outside
\* the batch and kept the batch's file.
PruneRemovedStaleFile ==
    /\ lastOp.op = "PruneStaleFiles"
    /\ lastOp.ok
    /\ Len(lastOp.batch) = 2
    /\ lastOp.ids # {}
    /\ nodes # {}

----------------------------------------------------------------------------
(* SpecImpact: find_impact on any store content *)

\* Most edges of a store content of SpecImpact.
MaxImpactEdges == 3

Range(q) == {q[i] : i \in 1..Len(q)}

ImpactNodeSets == SUBSET {Node(f, n, 1) : f \in Files, n \in Names}

ImpactEdgeSets ==
    {Range(q) : q \in SeqsUpTo({Edge(a, b, "references") : a \in IDs, b \in IDs},
                               MaxImpactEdges)}

InitImpact ==
    /\ nodes \in ImpactNodeSets
    /\ edges \in ImpactEdgeSets
    /\ lastOp = Op("New", NoFile, {}, TRUE, <<>>, {})
    /\ impact = ImpactIdle
    /\ storeCall = StoreCallsIdle
    /\ WatchUnused
    /\ LifeUnused

NextImpact ==
    \/ \E name \in Names : FindImpactStart(name)
    \/ \E t \in IDs : FindImpactBase(t)
    \/ \E r \in IDs : FindImpactStep(r)
    \/ FindImpactCollect
    \/ FindImpactReturn

SpecImpact == InitImpact /\ [][NextImpact]_vars

\* The pairs (s, t) joined by a non-empty chain of edges s -> ... -> t,
\* computed on the relation itself, one intermediate id after the other.
RECURSIVE ChainClosure(_, _)
ChainClosure(R, mids) ==
    IF mids = {} THEN R
    ELSE LET k == CHOOSE x \in mids : TRUE
         IN ChainClosure(
                R \cup {<<p[1], q[2]>> : p \in {x \in R : x[2] = k},
                                         q \in {x \in R : x[1] = k}},
                mids \ {k})

HasChain(E, s, t) ==
    <<s, t>> \in ChainClosure({<<e.source_id, e.target_id>> : e \in E}, IDs)

\* C9: find_impact(name) returns exactly the stored nodes s from which a
\* non-empty chain of edges s -> ... -> t leads to a stored node t named
\* name, each once; a queried node on a cycle is among them.
ImpactIsChainSources ==
    impact.pc = "done" =>
        impact.result =
            {s \in nodes : \E t \in nodes :
                t.name = impact.name /\ HasChain(edges, s.id, t.id)}

\* find_impact(d.name) has returned a, b and c for the chain a -> b -> c -> d.
ImpactOfChainReturned ==
    /\ impact.pc = "done"
    /\ \E a, b, c, d \in nodes :
        /\ Cardinality({a, b, c, d}) = 4
        /\ edges = {Edge(a.id, b.id, "references"), Edge(b.id, c.id, "references"),
                    Edge(c.id, d.id, "references")}
        /\ d.name = impact.name
        /\ {a, b, c} \subseteq impact.result
        /\ d \notin impact.result

\* C10: the recursive query takes no more steps than the edges have distinct
\* sources, so it ends on every edge set, cycles and self-loops included, and
\* the list returned holds no node twice.
ImpactQueryIsBounded ==
    /\ impact.steps <= Cardinality({e.source_id : e \in edges})
    /\ impact.queue \subseteq impact.seen
    /\ impact.pc = "done" =>
        \A a, b \in impact.result : a.id = b.id => a = b

\* find_impact has returned on a cycle a -> b, b -> a: the queried node a is
\* in the result, with b.
ImpactOfCycleReturned ==
    /\ impact.pc = "done"
    /\ impact.steps >= 2
    /\ \E a, b \in nodes :
        /\ a # b
        /\ {Edge(a.id, b.id, "references"), Edge(b.id, a.id, "references")} \subseteq edges
        /\ a.name = impact.name
        /\ {a, b} \subseteq impact.result

----------------------------------------------------------------------------
(* Spec: the process from main() on: the initial index, then the index and *)
(* the query tool calls of the server, in any interleaving *)

\* What Scanner.Scan finds in the workspace, and the edges Service.Enrich
\* derives for it from the language server's answers.
Workspace == <<Node("/w/a.go", "F", 1), Node("/w/b.go", "G", 1)>>

LspEdges == <<Edge(GenerateNodeID("b.go", "G"), GenerateNodeID("a.go", "F"), "references")>>

\* The rows a database file left by an earlier process can hold.
LeftOver == {Node("/w/b.go", "F", 2)}

\* The rows of two files that were in the workspace once and are no more.
OldFiles == {"/w/c.go", "/w/d.go"}

OldRows == {Node("/w/c.go", "G", 1), Node("/w/d.go", "G", 1)}

OldRow == {Node("/w/c.go", "G", 1)}

FileRank ==
    [f \in Files \cup OldFiles |->
        IF f = "/w/a.go" THEN 1 ELSE IF f = "/w/b.go" THEN 2 ELSE IF f = "/w/c.go" THEN 3 ELSE 4]

\* The orders in which SELECT ... ORDER BY returns the rows S; rank gives the
\* position of a row's sort key, and rows with equal keys come in any order.
OrderedRows(S, rank) ==
    {q \in [1..Cardinality(S) -> S] :
        /\ \A i, j \in 1..Cardinality(S) : i # j => q[i] # q[j]
        /\ \A i, j \in 1..Cardinality(S) : i < j => rank[q[i]] <= rank[q[j]]}

\* Store.GetSymbolsInFile: WHERE file_path = ? ORDER BY line_start.
GetSymbolsInFile(N, path) ==
    OrderedRows({n \in N : n.file_path = path}, [n \in N |-> n.line_start])

\* Store.GetSymbolLocation: WHERE name = ? ORDER BY file_path.
GetSymbolLocation(N, name) ==
    OrderedRows({n \in N : n.name = name}, [n \in N |-> FileRank[n.file_path]])

\* The state in which main() starts the initial index, after db.New on a
\* database file that holds the rows S; the lifecycle fields have the values
\* the construction of the server gives them.
Started(S) ==
    /\ nodes = S
    /\ edges = {}
    /\ lastOp = Op("New", NoFile, {}, TRUE, <<>>, {})
    /\ impact = ImpactIdle
    /\ storeCall = StoreCallsIdle
    /\ WatchUnused
    /\ life = NewLife
    /\ mainPc = "scan"
    /\ idx = [i \in IndexCalls |-> IndexIdle]
    /\ qry = [q \in Queriers |-> QueryIdle]
    /\ lastEnded = NoRun

Init == \E S \in {{}, LeftOver, OldRows} : Started(S)

(* main(): the initial index. No step of it touches the lifecycle fields;  *)
(* the server is constructed after it.                                      *)

\* scn.Scan(ctx); a failure is fatal.
MainScan(ok) ==
    /\ mainPc = "scan"
    /\ mainPc' = IF ok THEN "nodes" ELSE "fatal"
    /\ UNCHANGED <<storeVars, impact, storeCall, watchVars, life, idx, qry, lastEnded>>

\* store.BulkUpsertNodes(ctx, nodes); a failure is logged.
MainStoreNodes(ok) ==
    /\ mainPc = "nodes"
    /\ mainPc' = "prune"
    /\ nodes' = IF ok THEN BulkUpsertNodeRows(nodes, Workspace) ELSE nodes
    /\ lastOp' = Op("BulkUpsertNodes", NoFile, {}, ok, Workspace, {})
    /\ UNCHANGED <<edges, impact, storeCall, watchVars, life, idx, qry, lastEnded>>

\* store.PruneStaleFiles(ctx, validFiles), to the end of its SELECT; a failure
\* is logged.
MainPrune(ok) ==
    /\ mainPc = "prune"
    /\ IF ok /\ StaleFiles(nodes, ValidFiles(Workspace)) # {}
       THEN /\ mainPc' = "pruning"
            /\ storeCall' = [storeCall EXCEPT !["main"] =
                                Pruning(nodes, ValidFiles(Workspace), Workspace)]
            /\ UNCHANGED lastOp
       ELSE /\ mainPc' = "enrich"
            /\ lastOp' = Op("PruneStaleFiles", NoFile, {}, ok, Workspace, ValidFiles(Workspace))
            /\ UNCHANGED storeCall
    /\ UNCHANGED <<nodes, edges, impact, watchVars, life, idx, qry, lastEnded>>

\* One turn of the loop of that PruneStaleFiles.
MainPruneDelete(f, ok) ==
    /\ mainPc = "pruning"
    /\ f \in storeCall["main"].todo
    /\ IF ok
       THEN /\ PruneTurn("main", f)
            /\ mainPc' = IF storeCall["main"].todo = {f} THEN "enrich" ELSE "pruning"
            /\ lastOp' = IF storeCall["main"].todo = {f}
                         THEN Op("PruneStaleFiles", NoFile,
                                 storeCall["main"].ids
                                     \cup (NodeIDs(nodes) \ NodeIDs(DeleteNodeRows(nodes, f))),
                                 TRUE, Workspace, ValidFiles(Workspace))
                         ELSE lastOp
       ELSE /\ PruneTurnFails("main")
            /\ mainPc' = "enrich"
            /\ lastOp' = Op("PruneStaleFiles", f, storeCall["main"].ids, FALSE,
                            Workspace, ValidFiles(Workspace))
    /\ UNCHANGED <<impact, watchVars, life, idx, qry, lastEnded>>

\* lspSvc.Enrich(ctx, nodes); a failure is fatal.
MainEnrich(ok) ==
    /\ mainPc = "enrich"
    /\ mainPc' = IF ok THEN "edges" ELSE "fatal"
    /\ UNCHANGED <<storeVars, impact, storeCall, watchVars, life, idx, qry, lastEnded>>

\* store.BulkUpsertEdges(ctx, edges); a failure is logged.
MainStoreEdges(ok) ==
    /\ mainPc = "edges"
    /\ mainPc' = "watcher"
    /\ edges' = IF ok THEN BulkUpsertEdgeRows(nodes, edges, LspEdges) ELSE edges
    /\ lastOp' = Op("BulkUpsertEdges", NoFile, {}, ok, <<>>, {})
    /\ UNCHANGED <<nodes, impact, storeCall, watchVars, life, idx, qry, lastEnded>>

\* watcher.New(rootPath, scn, store, lspSvc); a failure, that of
\* fsnotify.NewWatcher, is fatal.
MainNewWatcher(ok) ==
    /\ mainPc = "watcher"
    /\ mainPc' = IF ok THEN "watch" ELSE "fatal"
    /\ UNCHANGED <<storeVars, impact, storeCall, watchVars, life, idx, qry, lastEnded>>

\* go func() { w.Watch(ctx) }(), main going on to make the server. When
\* Watch can add the directories (ok) the watcher receives the events of the
\* workspace from here on and reindexes; else Watch returns the error at
\* once, the goroutine puts it in watcherErrChan and no event is received.
MainStartWatcher(ok) ==
    /\ mainPc = "watch"
    /\ mainPc' = IF ok THEN "server" ELSE "serverNoWatch"
    /\ UNCHANGED <<storeVars, impact, storeCall, watchVars, life, idx, qry, lastEnded>>

\* server.New(scn, store, lspSvc) and go func() { srv.Run(ctx) }(): the
\* server is made with the status not_started and takes calls, and main
\* waits in its select.
MainStartServer ==
    /\ mainPc \in {"server", "serverNoWatch"}
    /\ mainPc' = IF mainPc = "server" THEN "serving" ELSE "servingNoWatch"
    /\ life' = NewLife
    /\ UNCHANGED <<storeVars, impact, storeCall, watchVars, idx, qry, lastEnded>>

\* The cases of the select of main: an error of srv.Run, an error of Watch,
\* the context cancelled by a signal.
SelectCases == {"serverErrChan", "watcherErrChan", "ctx.Done"}

\* The select of main takes a case that is ready. srv.Run can return an
\* error and a signal can cancel the context at any moment; the error of
\* Watch is there when Watch could not add the directories. On an error
\* log.Fatalf ends the process at once; on the context main returns, the
\* deferred w.Close(), lspSvc.Shutdown() and database.Close() run and the
\* process ends. Either way every goroutine ends where it is.
MainSelect(case) ==
    /\ Serving
    /\ case = "watcherErrChan" => mainPc = "servingNoWatch"
    /\ mainPc' = IF case = "ctx.Done" THEN "exited" ELSE "fatal"
    /\ UNCHANGED <<storeVars, impact, storeCall, watchVars, life, idx, qry, lastEnded>>

(* The index tool handler, one action per access to shared state *)

\* A run ends with status and err: it becomes the run that ended last, and
\* every query call in progress has seen a run end.
EndRun(status, err) ==
    /\ lastEnded' = [status |-> status, err |-> err]
    /\ qry' = [q \in Queriers |->
                 IF qry[q].pc \in {"wait", "waited"}
                 THEN [qry[q] EXCEPT !.endedSince = TRUE] ELSE qry[q]]

\* The channels the waits of the query calls in Q are on.
WaitedOn(Q) == {qry[q].ch : q \in {r \in Q : qry[r].pc = "wait"}}

\* A step of call i that ends its run in failure: the status is set to
\* failed with the error msg, and the call returns the error result text.
IndexFail(i, msg, text) ==
    /\ life' = FailWith(life, msg)
    /\ idx' = [idx EXCEPT ![i].pc = "done", ![i].result = ErrorResult(text, msg)]
    /\ EndRun("failed", msg)

\* The call arrives: the status is read under the read lock; the call is
\* rejected if the status is in_progress, goes on to re-arm the signal if it
\* is ready or failed, and goes on to set in_progress otherwise. Of two free
\* handlers the first takes the call.
IndexCall(i) ==
    /\ Serving
    /\ idx[i].pc = "idle"
    /\ i = "i2" => idx["i1"].pc # "idle"
    /\ idx' = [idx EXCEPT
                 ![i].pc = IF life.status = "in_progress" THEN "done"
                           ELSE IF life.status \in {"ready", "failed"} THEN "rearm"
                           ELSE "begin",
                 ![i].result = IF life.status = "in_progress"
                               THEN ErrorResult("Indexing already in progress", NoErr)
                               ELSE NoResult]
    /\ UNCHANGED <<storeVars, impact, storeCall, watchVars, life, mainPc, qry, lastEnded>>

\* The ready signal is re-armed under the lock, the status read earlier
\* having been ready or failed.
IndexRearm(i) ==
    /\ ProcessRuns
    /\ idx[i].pc = "rearm"
    /\ life' = Rearm(life, WaitedOn(Queriers))
    /\ idx' = [idx EXCEPT ![i].pc = "begin"]
    /\ UNCHANGED <<storeVars, impact, storeCall, watchVars, mainPc, qry, lastEnded>>

\* s.setIndexStatus(IndexStatusInProgress, nil)
IndexSetInProgress(i) ==
    /\ ProcessRuns
    /\ idx[i].pc = "begin"
    /\ life' = SetIndexStatus(life, "in_progress", NoErr)
    /\ idx' = [idx EXCEPT ![i].pc = "scan"]
    /\ UNCHANGED <<storeVars, impact, storeCall, watchVars, mainPc, qry, lastEnded>>

\* s.scanner.Scan(ctx)
IndexScan(i, ok) ==
    /\ ProcessRuns
    /\ idx[i].pc = "scan"
    /\ IF ok
       THEN /\ idx' = [idx EXCEPT ![i].pc = "nodes"]
            /\ UNCHANGED <<life, qry, lastEnded>>
       ELSE IndexFail(i, "scan failed", "Scan failed")
    /\ UNCHANGED <<storeVars, impact, storeCall, watchVars, mainPc>>

\* s.store.BulkUpsertNodes(ctx, nodes)
IndexStoreNodes(i, ok) ==
    /\ ProcessRuns
    /\ idx[i].pc = "nodes"
    /\ IF ok
       THEN /\ nodes' = BulkUpsertNodeRows(nodes, Workspace)
            /\ idx' = [idx EXCEPT ![i].pc = "prune", ![i].wrote = TRUE]
            /\ UNCHANGED <<life, qry, lastEnded>>
       ELSE /\ IndexFail(i, "failed to store nodes", "Failed to store nodes")
            /\ UNCHANGED nodes
    /\ UNCHANGED <<edges, lastOp, impact, storeCall, watchVars, mainPc>>

\* s.store.PruneStaleFiles(ctx, validFiles), to the end of its SELECT; a
\* failure is a warning.
IndexPruneStale(i, ok) ==
    /\ ProcessRuns
    /\ idx[i].pc = "prune"
    /\ IF ok /\ StaleFiles(nodes, ValidFiles(Workspace)) # {}
       THEN /\ idx' = [idx EXCEPT ![i].pc = "pruning"]
            /\ storeCall' = [storeCall EXCEPT ![i] =
                                Pruning(nodes, ValidFiles(Workspace), Workspace)]
       ELSE /\ idx' = [idx EXCEPT ![i].pc = "enrich", ![i].pruneFailed = ~ok]
            /\ UNCHANGED storeCall
    /\ UNCHANGED <<storeVars, impact, watchVars, life, mainPc, qry, lastEnded>>

\* One turn of the loop of that PruneStaleFiles.
IndexPruneStaleDelete(i, f, ok) ==
    /\ ProcessRuns
    /\ idx[i].pc = "pruning"
    /\ f \in storeCall[i].todo
    /\ IF ok
       THEN /\ PruneTurn(i, f)
            /\ idx' = [idx EXCEPT ![i].pc = IF storeCall[i].todo = {f} THEN "enrich"
                                            ELSE "pruning"]
       ELSE /\ PruneTurnFails(i)
            /\ idx' = [idx EXCEPT ![i].pc = "enrich", ![i].pruneFailed = TRUE]
    /\ UNCHANGED <<lastOp, impact, watchVars, life, mainPc, qry, lastEnded>>

\* s.lsp.Enrich(ctx, nodes)
IndexEnrich(i, ok) ==
    /\ ProcessRuns
    /\ idx[i].pc = "enrich"
    /\ IF ok
       THEN /\ idx' = [idx EXCEPT ![i].pc = "edges"]
            /\ UNCHANGED <<life, qry, lastEnded>>
       ELSE IndexFail(i, "LSP enrichment failed", "Enrich failed")
    /\ UNCHANGED <<storeVars, impact, storeCall, watchVars, mainPc>>

\* s.store.BulkUpsertEdges(ctx, edges)
IndexStoreEdges(i, ok) ==
    /\ ProcessRuns
    /\ idx[i].pc = "edges"
    /\ IF ok
       THEN /\ edges' = BulkUpsertEdgeRows(nodes, edges, LspEdges)
            /\ idx' = [idx EXCEPT ![i].pc = "finish", ![i].wrote = TRUE]
            /\ UNCHANGED <<life, qry, lastEnded>>
       ELSE /\ IndexFail(i, "failed to store edges", "Failed to store edges")
            /\ UNCHANGED edges
    /\ UNCHANGED <<nodes, lastOp, impact, storeCall, watchVars, mainPc>>

\* s.setIndexStatus(IndexStatusReady, nil), and the result of the call: the
\* numbers of nodes and edges indexed.
IndexFinish(i) ==
    /\ ProcessRuns
    /\ idx[i].pc = "finish"
    /\ life' = SetIndexStatus(life, "ready", NoErr)
    /\ idx' = [idx EXCEPT ![i].pc = "done", ![i].result = TextResult("Indexed", <<Len(Workspace), Len(LspEdges)>>)]
    /\ EndRun("ready", NoErr)
    /\ UNCHANGED <<storeVars, impact, storeCall, watchVars, mainPc>>

\* The result is handed to the client.
IndexReturn(i) ==
    /\ ProcessRuns
    /\ idx[i].pc = "done"
    /\ idx' = [idx EXCEPT ![i] = IndexIdle]
    /\ UNCHANGED <<storeVars, impact, storeCall, watchVars, life, mainPc, qry, lastEnded>>

(* The query tool handlers: get_symbols_in_file, find_impact and          *)
(* get_symbol_location, one action per access to shared state              *)

\* The call arrives and Server.WaitForIndex begins: the wait is on the ready
\* signal that is current now, for 30 seconds at most.
QueryCall(q, tool) ==
    /\ Serving
    /\ qry[q].pc = "idle"
    /\ qry' = [qry EXCEPT ![q] = [QueryIdle EXCEPT
                 !.pc = "wait", !.tool = tool, !.ch = life.ready,
                 !.blocked = life.ready \notin life.closed,
                 !.afterFailed = (lastEnded.status = "failed")]]
    /\ UNCHANGED <<storeVars, impact, storeCall, watchVars, life, mainPc, idx, lastEnded>>

\* Server.WaitForIndex returns on the signal: its result is the error stored
\* with the status at that moment.
QueryWaitReady(q) ==
    /\ ProcessRuns
    /\ qry[q].pc = "wait"
    /\ qry[q].ch \in life.closed
    /\ qry' = [qry EXCEPT ![q].pc = "waited", ![q].ch = 0, ![q].blocked = FALSE,
                          ![q].waitErr = life.err]
    /\ life' = Forget(life, WaitedOn(Queriers \ {q}))
    /\ UNCHANGED <<storeVars, impact, storeCall, watchVars, mainPc, idx, lastEnded>>

\* Server.WaitForIndex returns on the context: the 30 seconds have passed.
QueryWaitContext(q) ==
    /\ ProcessRuns
    /\ qry[q].pc = "wait"
    /\ qry' = [qry EXCEPT ![q].pc = "waited", ![q].ch = 0, ![q].blocked = FALSE,
                          ![q].waitErr = DeadlineExceeded]
    /\ life' = Forget(life, WaitedOn(Queriers \ {q}))
    /\ UNCHANGED <<storeVars, impact, storeCall, watchVars, mainPc, idx, lastEnded>>

\* The wait failed: Server.GetIndexStatus is read and an error result is
\* returned.
QueryFail(q) ==
    /\ ProcessRuns
    /\ qry[q].pc = "waited"
    /\ WaitFailed(qry[q].waitErr)
    /\ qry' = [qry EXCEPT ![q].pc = "done",
                          ![q].result = WaitFailureResult(life.status, life.err, qry[q].waitErr)]
    /\ UNCHANGED <<storeVars, impact, storeCall, watchVars, life, mainPc, idx, lastEnded>>

\* The arguments of the query calls: a file and a symbol of the workspace.
QueryFile == "/w/a.go"

QueryName == "F"

\* The rows the store returns to a tool for its argument in one statement;
\* FindImpact returns the empty list when its SELECT id finds no target.
QueryRows(tool) ==
    IF tool = "get_symbols_in_file" THEN GetSymbolsInFile(nodes, QueryFile)
    ELSE IF tool = "get_symbol_location" THEN GetSymbolLocation(nodes, QueryName)
    ELSE {<<>>}

\* The text of a successful query result.
QueryText(tool, rows) ==
    IF tool = "find_impact" /\ rows = <<>> THEN "No impacted symbols found."
    ELSE IF tool = "get_symbol_location" /\ rows = <<>> THEN "Symbol not found."
    ELSE "json"

\* The wait succeeded: the store is read and its rows are returned, or the
\* error of the read. Of FindImpact this is the first statement, SELECT id
\* FROM nodes WHERE name = ?, whose ids are the targets of the queries that
\* follow.
QueryRead(q, ok) ==
    /\ ProcessRuns
    /\ qry[q].pc = "waited"
    /\ ~WaitFailed(qry[q].waitErr)
    /\ IF ok /\ qry[q].tool = "find_impact" /\ TargetIDs(nodes, QueryName) # {}
       THEN qry' = [qry EXCEPT ![q].pc = "impact", ![q].readStore = TRUE,
                               ![q].targets = TargetIDs(nodes, QueryName)]
       ELSE \E rows \in QueryRows(qry[q].tool) :
               qry' = [qry EXCEPT ![q].pc = "done", ![q].readStore = TRUE,
                                  ![q].result =
                                      IF ok THEN TextResult(QueryText(qry[q].tool, rows), rows)
                                      ELSE ErrorResult("Query failed", NoErr)]
    /\ UNCHANGED <<storeVars, impact, storeCall, watchVars, life, mainPc, idx, lastEnded>>

\* FindImpact, one turn of its loop over targetIDs: the recursive query for
\* the target t on the store of this moment, its rows put in uniqueNodes.
\* After the last target the map, ranged over in any order, is the result.
QueryImpact(q, t, ok) ==
    /\ ProcessRuns
    /\ qry[q].pc = "impact"
    /\ t \in qry[q].targets
    /\ IF ~ok
       THEN qry' = [qry EXCEPT ![q].pc = "done", ![q].targets = {}, ![q].unique = {},
                               ![q].result = ErrorResult("Query failed", NoErr)]
       ELSE IF qry[q].targets # {t}
       THEN qry' = [qry EXCEPT
                      ![q].targets = @ \ {t},
                      ![q].unique =
                          MergeUnique(@, JoinNodes(nodes,
                              ImpactedRows(edges, DirectSources(edges, t),
                                           DirectSources(edges, t))))]
       ELSE \E rows \in OrderedRows(
                           MergeUnique(qry[q].unique, JoinNodes(nodes,
                               ImpactedRows(edges, DirectSources(edges, t),
                                            DirectSources(edges, t)))),
                           [n \in nodes \cup qry[q].unique |-> 0]) :
               qry' = [qry EXCEPT ![q].pc = "done", ![q].targets = {}, ![q].unique = {},
                                  ![q].result = TextResult(QueryText("find_impact", rows), rows)]
    /\ UNCHANGED <<storeVars, impact, storeCall, watchVars, life, mainPc, idx, lastEnded>>

\* The result is handed to the client.
QueryReturn(q) ==
    /\ ProcessRuns
    /\ qry[q].pc = "done"
    /\ qry' = [qry EXCEPT ![q] = QueryIdle]
    /\ UNCHANGED <<storeVars, impact, storeCall, watchVars, life, mainPc, idx, lastEnded>>

\* In Spec the client makes its index tool calls one after the other.
FirstCall == {"i1"}

Next ==
    \/ \E ok \in BOOLEAN : MainScan(ok)
    \/ \E ok \in BOOLEAN : MainStoreNodes(ok)
    \/ \E ok \in BOOLEAN : MainPrune(ok)
    \/ \E f \in OldFiles, ok \in BOOLEAN : MainPruneDelete(f, ok)
    \/ \E ok \in BOOLEAN : MainEnrich(ok)
    \/ \E ok \in BOOLEAN : MainStoreEdges(ok)
    \/ \E ok \in BOOLEAN : MainNewWatcher(ok)
    \/ \E ok \in BOOLEAN : MainStartWatcher(ok)
    \/ MainStartServer
    \/ \E case \in SelectCases : MainSelect(case)
    \/ \E q \in Queriers, tool \in QueryTools : QueryCall(q, tool)
    \/ \E q \in Queriers : QueryWaitReady(q)
    \/ \E q \in Queriers : QueryWaitContext(q)
    \/ \E q \in Queriers : QueryFail(q)
    \/ \E q \in Queriers, ok \in BOOLEAN : QueryRead(q, ok)
    \/ \E q \in Queriers, t \in IDs, ok \in BOOLEAN : QueryImpact(q, t, ok)
    \/ \E q \in Queriers : QueryReturn(q)
    \/ \E i \in FirstCall : IndexCall(i)
    \/ \E i \in FirstCall : IndexRearm(i)
    \/ \E i \in FirstCall : IndexSetInProgress(i)
    \/ \E i \in FirstCall, ok \in BOOLEAN : IndexScan(i, ok)
    \/ \E i \in FirstCall, ok \in BOOLEAN : IndexStoreNodes(i, ok)
    \/ \E i \in FirstCall, ok \in BOOLEAN : IndexPruneStale(i, ok)
    \/ \E i \in FirstCall, f \in OldFiles, ok \in BOOLEAN : IndexPruneStaleDelete(i, f, ok)
    \/ \E i \in FirstCall, ok \in BOOLEAN : IndexEnrich(i, ok)
    \/ \E i \in FirstCall, ok \in BOOLEAN : IndexStoreEdges(i, ok)
    \/ \E i \in FirstCall : IndexFinish(i)
    \/ \E i \in FirstCall : IndexReturn(i)

\* The workspace of this specification does not change: the watcher that
\* main starts receives no event and makes no step. SpecRace starts where
\* the goroutine of the watcher runs and the server is yet to be started.
\* Once the process has ended no step is left.
Spec == Init /\ [][Next]_vars

----------------------------------------------------------------------------
(* SpecIndex: the server once main() has constructed it, with index and    *)
(* query tool calls in any interleaving                                    *)

\* The server is serving, no tool call was made yet. The database is the one
\* the initial index of main() leaves from an empty one, or from one with the
\* row of an old file when its PruneStaleFiles has failed.
InitIndex ==
    /\ nodes \in {BulkUpsertNodeRows(S, Workspace) : S \in {{}, OldRow}}
    /\ edges = BulkUpsertEdgeRows(nodes, {}, LspEdges)
    /\ lastOp = Op("New", NoFile, {}, TRUE, <<>>, {})
    /\ impact = ImpactIdle
    /\ storeCall = StoreCallsIdle
    /\ WatchUnused
    /\ life = NewLife
    /\ mainPc = "serving"
    /\ idx = [i \in IndexCalls |-> IndexIdle]
    /\ qry = [q \in Queriers |-> QueryIdle]
    /\ lastEnded = NoRun

\* In SpecIndex the query calls are calls of find_impact; the wait of the
\* three query handlers is the same code.
ImpactTool == {"find_impact"}

NextIndex ==
    \/ \E i \in IndexCalls : IndexCall(i)
    \/ \E i \in IndexCalls : IndexRearm(i)
    \/ \E i \in IndexCalls : IndexSetInProgress(i)
    \/ \E i \in IndexCalls, ok \in BOOLEAN : IndexScan(i, ok)
    \/ \E i \in IndexCalls, ok \in BOOLEAN : IndexStoreNodes(i, ok)
    \/ \E i \in IndexCalls, ok \in BOOLEAN : IndexPruneStale(i, ok)
    \/ \E i \in IndexCalls, f \in OldFiles, ok \in BOOLEAN : IndexPruneStaleDelete(i, f, ok)
    \/ \E i \in IndexCalls, ok \in BOOLEAN : IndexEnrich(i, ok)
    \/ \E i \in IndexCalls, ok \in BOOLEAN : IndexStoreEdges(i, ok)
    \/ \E i \in IndexCalls : IndexFinish(i)
    \/ \E i \in IndexCalls : IndexReturn(i)
    \/ \E q \in Queriers, tool \in ImpactTool : QueryCall(q, tool)
    \/ \E q \in Queriers : QueryWaitReady(q)
    \/ \E q \in Queriers : QueryWaitContext(q)
    \/ \E q \in Queriers : QueryFail(q)
    \/ \E q \in Queriers, ok \in BOOLEAN : QueryRead(q, ok)
    \/ \E q \in Queriers, t \in IDs, ok \in BOOLEAN : QueryImpact(q, t, ok)
    \/ \E q \in Queriers : QueryReturn(q)

SpecIndex == InitIndex /\ [][NextIndex]_vars

----------------------------------------------------------------------------
(* The index lifecycle: properties *)

\* The positions of an index call between its in_progress and its terminal
\* status: the scan / upsert / prune / enrich cycle.
CyclePcs == {"scan", "nodes", "prune", "pruning", "enrich", "edges", "finish"}

\* C1: at most one index call is in the scan / prune / enrich cycle at a
\* time, and a call rejected with 'Indexing already in progress' has written
\* nothing to the store.
OneIndexRunAtATime ==
    /\ Cardinality({i \in IndexCalls : idx[i].pc \in CyclePcs}) <= 1
    /\ \A i \in IndexCalls :
        idx[i].result.text = "Indexing already in progress" => ~idx[i].wrote

\* No index call is between its arrival and its terminal status.
NoRunInFlight == \A i \in IndexCalls : idx[i].pc \in {"idle", "done"}

\* C2: a wait_for_ready call that blocked is released by its signal only if
\* the status was set to ready or failed after it blocked, not by an earlier
\* signal; and it is not left blocked once a run has ended after it blocked
\* and no run is in flight any more.
WaitReturnsIffRunEnded ==
    \A q \in Queriers :
        (qry[q].pc = "wait" /\ qry[q].blocked) =>
            /\ qry[q].ch \in life.closed => qry[q].endedSince
            /\ (qry[q].endedSince /\ NoRunInFlight) => qry[q].ch \in life.closed

\* No index tool call has arrived yet.
NoIndexCallYet == lastEnded = NoRun /\ \A i \in IndexCalls : idx[i].pc = "idle"

\* The initial index of main() has stored the nodes and the edges of the
\* workspace and the server is serving.
InitialIndexComplete ==
    /\ mainPc = "serving"
    /\ Range(Workspace) \subseteq nodes
    /\ Range(LspEdges) \subseteq edges

\* C3: once the initial index has completed without error, and without any
\* index tool call, the status is ready and the ready signal has fired, and
\* a query tool call returns graph data.
InitialIndexMakesReady ==
    (InitialIndexComplete /\ NoIndexCallYet) =>
        /\ life.status = "ready"
        /\ life.ready \in life.closed
        /\ \A q \in Queriers : qry[q].pc = "done" => qry[q].readStore

\* C4: a query handler reads the store only after its wait has returned
\* without error, and a handler whose wait ended in an error or timed out
\* returns an error result without having read the store.
QueryReadsOnlyAfterReady ==
    \A q \in Queriers :
        /\ qry[q].readStore => (qry[q].pc \in {"impact", "done"} /\ qry[q].waitErr = NoErr)
        /\ (qry[q].pc = "done" /\ qry[q].waitErr # NoErr) =>
               (qry[q].result.isError /\ ~qry[q].readStore)

\* A query tool has returned an error result after its wait timed out, and
\* has not read the store.
QueryTimedOutWithoutRead ==
    \E q \in Queriers :
        /\ qry[q].pc = "done"
        /\ qry[q].tool \in QueryTools
        /\ qry[q].waitErr = DeadlineExceeded
        /\ qry[q].result.isError
        /\ ~qry[q].readStore

\* C5: when the run that ended last has failed, wait_for_ready
\* returns that run's error, and a query call made then, no run having ended
\* since, returns the error result 'Indexing failed: ...'.
FailedRunFailsEveryQuery ==
    \A q \in Queriers :
        (qry[q].afterFailed /\ ~qry[q].endedSince) =>
            /\ (qry[q].pc \in {"waited", "done"} /\ qry[q].waitErr # DeadlineExceeded) =>
                   qry[q].waitErr = lastEnded.err
            /\ qry[q].pc = "done" =>
                   (qry[q].result.isError /\ qry[q].result.text = "Indexing failed")

\* The store writes of an index run whose failure the handler returns.
StoreWriteErrors == {"Failed to store nodes", "Failed to store edges"}

\* A store write of the index call i has failed.
StoreWriteFailed(i) == idx[i].pruneFailed \/ idx[i].result.text \in StoreWriteErrors

\* C21: a failure of a store write of an index run (node bulk upsert, prune,
\* edge bulk upsert) ends the run with an error and the status failed: an
\* index tool call one of whose store writes has failed has returned an error
\* result and the status is failed, and main() has stopped when the store
\* write it made last has failed.
StoreWriteFailureFailsRun ==
    /\ \A i \in FirstCall :
          StoreWriteFailed(i) =>
              /\ idx[i].pc = "done"
              /\ idx[i].result.isError
              /\ life.status = "failed"
    /\ ~lastOp.ok => mainPc = "fatal"

\* C22: whenever the status is in_progress, the current ready signal has not
\* fired.
InProgressSignalUnfired ==
    life.status = "in_progress" => life.ready \notin life.closed

\* C23: an index run that has set the status to in_progress sets it to ready
\* or failed on every return path, so that once every index call has
\* returned the status is ready or failed, the ready signal has fired, and no
\* wait_for_ready that blocked before a run ended is still blocked.
FinishedRunReleasesWaiters ==
    (NoRunInFlight /\ lastEnded # NoRun) =>
        /\ life.status \in {"ready", "failed"}
        /\ life.ready \in life.closed
        /\ \A q \in Queriers :
              (qry[q].pc = "wait" /\ qry[q].blocked /\ qry[q].endedSince) =>
                  qry[q].ch \in life.closed

----------------------------------------------------------------------------
(* Enrichment (internal/lsp) *)

DefinitionKinds ==
    {"function_declaration", "method_declaration", "method_definition",
     "function_definition", "class_definition", "class_declaration",
     "interface_declaration", "type_definition"}

\* isDefinitionKind.
IsDefinitionKind(kind) == kind \in DefinitionKinds

\* isInterfaceKind.
IsInterfaceKind(kind) == kind \in {"interface_declaration", "protocol_declaration"}

\* detectRequiredLanguages: the languages of the files of the batch.
DetectRequiredLanguages(batch) ==
    {GetLang(batch[i].file_path) : i \in 1..Len(batch)} \ {""}

Loc(file, line) == [file |-> file, line |-> line]

\* The nodes of N whose range of lines encloses the location.
Enclosing(N, loc) ==
    {n \in N : n.file_path = loc.file /\ n.line_start <= loc.line /\ loc.line <= n.line_end}

\* Store.FindNode: the innermost node that encloses the location, none when
\* no node does.
FindNode(N, loc) ==
    IF Enclosing(N, loc) = {} THEN {}
    ELSE {CHOOSE n \in Enclosing(N, loc) :
            \A m \in Enclosing(N, loc) :
                n.line_end - n.line_start <= m.line_end - m.line_start}

\* What a request of the client returns: its error, or the locations of the
\* response.
LspError == [err |-> "request failed", locs |-> {}]

LspLocations(locs) == [err |-> NoErr, locs |-> locs]

\* Client.GetReferences at the name token of n: the error of the call (a
\* timeout, an error response, a broken pipe), or the locations the language
\* server returns, which are the call sites of the disk that name n.
GetReferences(d, n, ok) ==
    IF ~ok THEN LspError
    ELSE LspLocations(UNION {{Loc(f, c.line) : c \in {x \in d[f].calls : x.callee = n.name}} :
                                f \in DOMAIN d})

\* Client.GetImplementation at the name token of n: the error of the call, or
\* the locations of the types of the disk that implement n.
GetImplementation(d, n, ok) ==
    IF ~ok THEN LspError
    ELSE LspLocations(UNION {{Loc(f, i.line) : i \in {x \in d[f].impls : x.iface = n.name}} :
                                f \in DOMAIN d})

(* The workers of Enrich. A call of Enrich is a record j: todo holds the    *)
(* nodes on nodeChan, openedDocs the URIs this call has opened, wk the      *)
(* workers that have a node in hand, found and count the list edges and its *)
(* length. There are more workers (10) than nodes in a batch here, so every *)
(* node can be in the hands of a worker at the same time.                   *)

\* A worker that goes on to the references of the node n: its position, the
\* locations of the response it has yet to resolve, and nodeEdges with its
\* length.
Working(n) == [n |-> n, pc |-> "references", locs |-> {}, nodeEdges |-> {}, len |-> 0]

\* The worker w goes on as v.
WorkerGoesOn(j, w, v) == [j EXCEPT !.wk = (@ \ {w}) \cup {v}]

\* nodeChan is closed and drained and every worker is back at its range:
\* edgeChan is closed, the loop over it ends and Enrich returns, its deferred
\* function closing the documents it opened.
WorkersEnd(j) ==
    IF j.todo = {} /\ j.wk = {} THEN [j EXCEPT !.pc = "edges", !.openedDocs = {}] ELSE j

\* edgeChan <- nodeEdges, which has room for the list of every node, and the
\* turn of the loop of Enrich that appends the list to edges.
SendEdges(j, w) ==
    WorkersEnd([j EXCEPT !.wk = @ \ {w},
                            !.found = @ \cup w.nodeEdges,
                            !.count = @ + w.len])

\* The worker that takes n tries to open its document: there is a client for
\* the language of the file and this call of Enrich has not opened the URI.
OpenTried(j, n, clients) ==
    GetLang(n.file_path) \in clients /\ PathToURI(n.file_path) \notin j.openedDocs

\* The outcomes of that: nothing fails when nothing is tried, and a file
\* that does not exist cannot be read.
OpenOutcome(j, n, ok, d, clients) ==
    /\ ~OpenTried(j, n, clients) => ok
    /\ OpenTried(j, n, clients) /\ ~d[n.file_path].exists => ~ok

\* A worker takes the node n off nodeChan. With no client for the language
\* of its file it goes on to the next node. With docsMu held it opens the
\* document unless this call of Enrich has opened it: when os.ReadFile or
\* client.DidOpen fails it unlocks and goes on to the next node, else the URI
\* is recorded. A node without name, or of a kind that is no definition,
\* ends here. clients are the languages with a client; ok is the outcome of
\* the reading and sending of the document.
TakeNode(j, n, ok, clients) ==
    LET uri == PathToURI(n.file_path)
        taken == [j EXCEPT !.todo = @ \ {n}]
    IN IF GetLang(n.file_path) \notin clients THEN WorkersEnd(taken)
       ELSE IF uri \notin j.openedDocs /\ ~ok THEN WorkersEnd(taken)
       ELSE IF n.name = "" \/ ~IsDefinitionKind(n.kind)
       THEN WorkersEnd([taken EXCEPT !.openedDocs = @ \cup {uri}])
       ELSE [taken EXCEPT !.openedDocs = @ \cup {uri}, !.wk = @ \cup {Working(n)}]

\* The worker w after findReferenceEdges has returned: on to the
\* implementations of an interface, else nodeEdges is sent.
AfterReferences(j, w) ==
    IF IsInterfaceKind(w.n.kind)
    THEN WorkerGoesOn(j, w, [w EXCEPT !.pc = "implementation", !.locs = {}])
    ELSE SendEdges(j, w)

\* findReferenceEdges, to its loop: client.GetReferences has returned resp.
\* With an error it returns no edge; else it goes through the locations.
FindReferenceEdges(j, w, resp) ==
    IF resp.err # NoErr \/ resp.locs = {} THEN AfterReferences(j, w)
    ELSE WorkerGoesOn(j, w, [w EXCEPT !.pc = "referenceNode", !.locs = resp.locs])

\* findImplementationEdges, to its loop: client.GetImplementation has
\* returned resp.
FindImplementationEdges(j, w, resp) ==
    IF resp.err # NoErr \/ resp.locs = {} THEN SendEdges(j, w)
    ELSE WorkerGoesOn(j, w, [w EXCEPT !.pc = "implementationNode", !.locs = resp.locs])

\* One turn of the loop over the locations, in findReferenceEdges and in
\* findImplementationEdges: resolver.FindNode on the rows N the store holds
\* now. With an error (~ok) the location is passed over; a node found that
\* is not the node queried gives an edge from it to the node queried. After
\* the last location the function returns.
ResolveLocation(j, w, loc, ok, N) ==
    LET src == IF ok THEN {s \in FindNode(N, loc) : s.id # w.n.id} ELSE {}
        rel == IF w.pc = "referenceNode" THEN "references" ELSE "implements"
        v == [w EXCEPT !.locs = @ \ {loc},
                       !.nodeEdges = @ \cup {Edge(s.id, w.n.id, rel) : s \in src},
                       !.len = @ + Cardinality(src)]
    IN IF v.locs # {} THEN WorkerGoesOn(j, w, v)
       ELSE IF w.pc = "referenceNode" THEN AfterReferences(WorkerGoesOn(j, w, v), v)
       ELSE SendEdges(WorkerGoesOn(j, w, v), v)

\* Store.BulkUpsertEdges on the edges of a run: the rows inserted in one
\* transaction, conflicts ignored.
UpsertEdgeSet(N, E, S) == E \cup {e \in S : EdgeAccepted(N, e)}

\* The set of the elements of a sequence.
Elems(s) == {s[i] : i \in 1..Len(s)}

----------------------------------------------------------------------------
(* The scanner on the disk (internal/scanner) *)

\* The order in which filepath.WalkDir visits the files: lexical.
WalkOrder == <<"/w/a.go", "/w/b.go", "/w/c.ts">>

\* The nodes Scanner.Scan emits for one file: one for each match that has a
\* capture called name.
ScanOneRows(path, content) ==
    [i \in 1..Len(content.defs) |->
        KindNode(path, content.defs[i].name, content.defs[i].line, content.defs[i].kind)]

RECURSIVE ScanPaths(_, _)
ScanPaths(d, paths) ==
    IF paths = <<>> THEN <<>>
    ELSE (IF Head(paths) \in DOMAIN d /\ d[Head(paths)].exists
          THEN ScanOneRows(Head(paths), d[Head(paths)])
          ELSE <<>>) \o ScanPaths(d, Tail(paths))

\* Scanner.Scan(root): the nodes of every supported file found by the walk.
ScanRows(d) == ScanPaths(d, WalkOrder)

nonWatchVars == <<impact, storeCall, lifeVars, lspVars>>

----------------------------------------------------------------------------
(* The index tool on the disk (internal/server/tools.go) *)

\* The files of the disk.
DiskFiles == DOMAIN disk

\* The variables no step of the index tool on the disk changes but the
\* clients of the service, which the start of Enrich changes.
besideEnrich == <<impact, mainPc, idx, qry, lastEnded, lspVars, watcherVars, latest>>

\* The variables no other step of the index tool on the disk changes.
besideRun == <<besideEnrich, enr>>

\* The start of Enrich on a batch, validateLanguageServers succeeding (ok) or
\* not. StartClient returns nil at once for a language that has a client, and
\* for a language without one it makes the client and registers it
\* (registered) and then returns nil when initialize succeeds (started):
\* detectAndStartLanguageServers returns the languages of the batch for which
\* StartClient returned nil.
LangServers(batch, started) == (DetectRequiredLanguages(batch) \cap enr.clients) \cup started

\* The outcomes of that start: a client whose process could not be started is
\* not registered, one whose initialize failed stays registered, and nothing
\* is started when the batch has no language or the validation fails.
EnrichStarts(batch, ok, started, registered) ==
    /\ registered \in SUBSET (DetectRequiredLanguages(batch) \ enr.clients)
    /\ started \in SUBSET registered
    /\ ~ok => registered = {}
    /\ DetectRequiredLanguages(batch) = {} => ok

\* Enrich returns an error before its workers start: a language server of
\* the batch is not installed, or none of them has a client.
EnrichFails(batch, ok, started) ==
    /\ DetectRequiredLanguages(batch) # {}
    /\ ~ok \/ LangServers(batch, started) = {}

\* A step of the handler that ends the run in failure: the status is set to
\* failed with the error msg and the call returns the error result text. The
\* run is recorded with the store it left.
RunFailWith(msg, text, clients) ==
    /\ life' = FailWith(life, msg)
    /\ run' = RunIdle
    /\ done' = Append(done, [result |-> ErrorResult(text, msg),
                             nodes |-> nodes, edges |-> edges,
                             clients |-> clients, faults |-> run.faults])

\* Such a step that leaves the clients of the service as they are.
RunFail(msg, text) == RunFailWith(msg, text, enr.clients)

\* The handler takes a call: the status is read under the read lock. The one
\* handler of this call is free, so that no run is in progress.
RunCall ==
    /\ Serving
    /\ run.pc = "idle"
    /\ Len(done) < MaxRuns
    /\ life.status # "in_progress"
    /\ run' = [RunIdle EXCEPT !.pc = IF life.status \in {"ready", "failed"} THEN "rearm"
                                    ELSE "begin"]
    /\ UNCHANGED <<storeVars, storeCall, life, done, lastWriter, besideRun>>

\* The ready signal is re-armed under the lock, the status read earlier
\* having been ready or failed.
RunRearm ==
    /\ ProcessRuns
    /\ run.pc = "rearm"
    /\ life' = Rearm(life, WaitedOn(Queriers))
    /\ run' = [run EXCEPT !.pc = "begin"]
    /\ UNCHANGED <<storeVars, storeCall, done, lastWriter, besideRun>>

\* s.setIndexStatus(IndexStatusInProgress, nil)
RunSetInProgress ==
    /\ ProcessRuns
    /\ run.pc = "begin"
    /\ life' = SetIndexStatus(life, "in_progress", NoErr)
    /\ run' = [run EXCEPT !.pc = "scan"]
    /\ UNCHANGED <<storeVars, storeCall, done, lastWriter, besideRun>>

\* s.scanner.Scan(ctx)
RunScan(ok) ==
    /\ ProcessRuns
    /\ run.pc = "scan"
    /\ IF ok
       THEN /\ run' = [run EXCEPT !.pc = "nodes", !.batch = ScanRows(disk)]
            /\ UNCHANGED <<life, done>>
       ELSE RunFail("scan failed", "Scan failed")
    /\ UNCHANGED <<storeVars, storeCall, lastWriter, besideRun>>

\* s.store.BulkUpsertNodes(ctx, nodes)
RunStoreNodes(ok) ==
    /\ ProcessRuns
    /\ run.pc = "nodes"
    /\ IF ok
       THEN /\ nodes' = BulkUpsertNodeRows(nodes, run.batch)
            /\ lastOp' = Op("BulkUpsertNodes", NoFile, {}, TRUE, run.batch, {})
            /\ run' = [run EXCEPT !.pc = "prune"]
            /\ lastWriter' = [f \in DiskFiles |->
                                IF f \in ValidFiles(run.batch)
                                THEN [by |-> "index",
                                      rows |-> {n \in Elems(run.batch) : n.file_path = f}]
                                ELSE lastWriter[f]]
            /\ UNCHANGED <<life, done>>
       ELSE /\ RunFail("failed to store nodes", "Failed to store nodes")
            /\ lastOp' = Op("BulkUpsertNodes", NoFile, {}, FALSE, run.batch, {})
            /\ UNCHANGED <<nodes, lastWriter>>
    /\ UNCHANGED <<edges, storeCall, besideRun>>

\* s.store.PruneStaleFiles(ctx, validFiles), to the end of its SELECT; a
\* failure is a warning.
RunPruneStale(ok) ==
    /\ ProcessRuns
    /\ run.pc = "prune"
    /\ IF ok /\ StaleFiles(nodes, ValidFiles(run.batch)) # {}
       THEN /\ run' = [run EXCEPT !.pc = "pruning"]
            /\ storeCall' = [storeCall EXCEPT !["run"] =
                                Pruning(nodes, ValidFiles(run.batch), run.batch)]
            /\ UNCHANGED lastOp
       ELSE /\ run' = [run EXCEPT !.pc = "enrich"]
            /\ lastOp' = Op("PruneStaleFiles", NoFile, {}, ok, run.batch, ValidFiles(run.batch))
            /\ UNCHANGED storeCall
    /\ UNCHANGED <<nodes, edges, life, done, lastWriter, besideRun>>

\* One turn of the loop of that PruneStaleFiles.
RunPruneDelete(f, ok) ==
    /\ ProcessRuns
    /\ run.pc = "pruning"
    /\ f \in storeCall["run"].todo
    /\ run' = [run EXCEPT !.pc = IF ok /\ storeCall["run"].todo # {f} THEN "pruning"
                                  ELSE "enrich"]
    /\ IF ok
       THEN /\ PruneTurn("run", f)
            /\ lastOp' = IF storeCall["run"].todo = {f}
                         THEN Op("PruneStaleFiles", NoFile,
                                 storeCall["run"].ids
                                     \cup (NodeIDs(nodes) \ NodeIDs(DeleteNodeRows(nodes, f))),
                                 TRUE, run.batch, ValidFiles(run.batch))
                         ELSE lastOp
       ELSE /\ PruneTurnFails("run")
            /\ lastOp' = Op("PruneStaleFiles", f, storeCall["run"].ids, FALSE,
                            run.batch, ValidFiles(run.batch))
    /\ UNCHANGED <<life, done, lastWriter, besideRun>>

\* s.lsp.Enrich(ctx, nodes, s.store), to the start of its workers. A batch
\* with no language returns no edge; an error of the language servers ends
\* the run in failure; else every node of the batch is put on the channel of
\* the workers. Either way the clients registered stay with the service,
\* those whose initialize failed too.
RunEnrich(ok, started, registered) ==
    /\ ProcessRuns
    /\ run.pc = "enrich"
    /\ EnrichStarts(run.batch, ok, started, registered)
    /\ enr' = [enr EXCEPT !.clients = @ \cup registered]
    /\ IF EnrichFails(run.batch, ok, started)
       THEN RunFailWith("LSP enrichment failed", "Enrich failed", enr.clients \cup registered)
       ELSE /\ run' = IF DetectRequiredLanguages(run.batch) = {}
                      THEN [run EXCEPT !.pc = "edges"]
                      ELSE [run EXCEPT !.pc = "enriching", !.todo = Elems(run.batch)]
            /\ UNCHANGED <<life, done>>
    /\ UNCHANGED <<storeVars, storeCall, lastWriter, besideEnrich>>

\* A worker of that Enrich takes the node n and opens its document on the
\* disk of this moment. A document that was not opened is recorded with the
\* run.
RunWorkerOpen(n, ok) ==
    /\ ProcessRuns
    /\ run.pc = "enriching"
    /\ n \in run.todo
    /\ OpenOutcome(run, n, ok, disk, enr.clients)
    /\ run' = [TakeNode(run, n, ok, enr.clients) EXCEPT
                  !.faults = IF ok THEN @ ELSE @ \cup {<<"open", n>>}]
    /\ UNCHANGED <<storeVars, storeCall, life, done, lastWriter, besideRun>>

\* The worker w of that Enrich asks the language server for the references
\* of its node, on the disk of this moment. A request that failed is
\* recorded with the run.
RunFindReferences(w, ok) ==
    /\ ProcessRuns
    /\ run.pc = "enriching"
    /\ w \in run.wk
    /\ w.pc = "references"
    /\ run' = [FindReferenceEdges(run, w, GetReferences(disk, w.n, ok)) EXCEPT
                  !.faults = IF ok THEN @ ELSE @ \cup {<<"references", w.n>>}]
    /\ UNCHANGED <<storeVars, storeCall, life, done, lastWriter, besideRun>>

\* The worker w asks the language server for the implementations of its
\* node, an interface.
RunFindImplementations(w, ok) ==
    /\ ProcessRuns
    /\ run.pc = "enriching"
    /\ w \in run.wk
    /\ w.pc = "implementation"
    /\ run' = [FindImplementationEdges(run, w, GetImplementation(disk, w.n, ok)) EXCEPT
                  !.faults = IF ok THEN @ ELSE @ \cup {<<"implementation", w.n>>}]
    /\ UNCHANGED <<storeVars, storeCall, life, done, lastWriter, besideRun>>

\* The worker w resolves the location loc against the store of this moment.
\* A lookup that failed is recorded with the run.
RunFindNode(w, loc, ok) ==
    /\ ProcessRuns
    /\ run.pc = "enriching"
    /\ w \in run.wk
    /\ w.pc \in {"referenceNode", "implementationNode"}
    /\ loc \in w.locs
    /\ run' = [ResolveLocation(run, w, loc, ok, nodes) EXCEPT
                  !.faults = IF ok THEN @ ELSE @ \cup {<<"lookup", w.n>>}]
    /\ UNCHANGED <<storeVars, storeCall, life, done, lastWriter, besideRun>>

\* s.store.BulkUpsertEdges(ctx, edges)
RunStoreEdges(ok) ==
    /\ ProcessRuns
    /\ run.pc = "edges"
    /\ IF ok
       THEN /\ edges' = UpsertEdgeSet(nodes, edges, run.found)
            /\ run' = [run EXCEPT !.pc = "finish"]
            /\ UNCHANGED <<life, done>>
       ELSE /\ RunFail("failed to store edges", "Failed to store edges")
            /\ UNCHANGED edges
    /\ UNCHANGED <<nodes, lastOp, storeCall, lastWriter, besideRun>>

\* s.setIndexStatus(IndexStatusReady, nil) and the result: the run is
\* recorded with the store it left.
RunFinish ==
    /\ ProcessRuns
    /\ run.pc = "finish"
    /\ life' = SetIndexStatus(life, "ready", NoErr)
    /\ run' = RunIdle
    /\ done' = Append(done, [result |-> TextResult("Indexed", <<Len(run.batch), run.count>>),
                             nodes |-> nodes, edges |-> edges,
                             clients |-> enr.clients, faults |-> run.faults])
    /\ UNCHANGED <<storeVars, storeCall, lastWriter, besideRun>>

----------------------------------------------------------------------------
(* The watcher (internal/watcher) *)

Min(a, b) == IF a <= b THEN a ELSE b

HasPending(P, path) == \E e \in P : e.path = path

\* A debounceFile that sets no entry.
DebounceFileDropped(P, path, now) == {e \in P : e.path # path}

\* Watcher.debounceFile: pendingFiles[path] = time.Now().Add(debounceTime).
DebounceFile(P, path, now) ==
    {e \in P : e.path # path} \cup {[path |-> path, deadline |-> now + DebounceTime]}

\* The paths processPendingFiles moves to ready at the instant now.
ReadyPaths(P, now) == {e.path : e \in {x \in P : DeadlinePassed(now, x.deadline)}}

\* The orders in which the range over the map can meet the paths of S.
Orders(S) ==
    {o \in [1..Cardinality(S) -> S] : \A i, j \in 1..Cardinality(S) : o[i] = o[j] => i = j}

\* A process writes the file f: fsnotify reports Create when the file did not
\* exist, Write when it did.
FsWrite(f, c) ==
    /\ Len(events) < MaxQueue
    /\ disk' = [disk EXCEPT ![f] = c]
    /\ events' = Append(events, Event(f, {IF disk[f].exists THEN "write" ELSE "create"}))
    /\ UNCHANGED <<storeVars, nonWatchVars, run, done, lastWriter, latest, enr, clock, pendingFiles, deb, burst>>

\* A process removes the file f, or renames it to a path outside the set.
FsRemove(f, op) ==
    /\ Len(events) < MaxQueue
    /\ disk[f].exists
    /\ disk' = [disk EXCEPT ![f] = NoContent]
    /\ events' = Append(events, Event(f, {op}))
    /\ UNCHANGED <<storeVars, nonWatchVars, run, done, lastWriter, latest, enr, clock, pendingFiles, deb, burst>>

\* Any event on a file whose contents the scanner never reads, and a Chmod of
\* a source file.
FsOther(p, op) ==
    /\ Len(events) < MaxQueue
    /\ p \in SourcePaths => op = "chmod"
    /\ events' = Append(events, Event(p, {op}))
    /\ UNCHANGED <<storeVars, nonWatchVars, run, done, lastWriter, latest, enr, clock, disk, pendingFiles, deb, burst>>

\* Watcher.handleFileDeleted that calls nothing.
HandleFileDeletedSkipped(path, ok) == UNCHANGED <<storeVars, lastWriter>>

\* Watcher.handleFileDeleted: DeleteNodesByFile(path), whose error it returns.
\* When the statement fails the rows stay.
HandleFileDeleted(path, ok) ==
    IF ok
    THEN /\ nodes' = DeleteNodeRows(nodes, path)
         /\ edges' = CascadeEdgeRows(edges,
                                     NodeIDs(nodes) \ NodeIDs(DeleteNodeRows(nodes, path)))
         /\ lastOp' = Op("DeleteNodesByFile", path,
                         NodeIDs(nodes) \ NodeIDs(DeleteNodeRows(nodes, path)), TRUE, <<>>, {})
         /\ lastWriter' = [lastWriter EXCEPT ![path] = [by |-> "watcher", rows |-> {}]]
    ELSE /\ lastOp' = Op("DeleteNodesByFile", path, {}, FALSE, <<>>, {})
         /\ UNCHANGED <<nodes, edges, lastWriter>>

\* Watch receives the next event and runs handleEvent on it. An event on a
\* path that the ignorer matches or that has no supported extension is
\* passed over, the directory it may have created being added to the watch;
\* isSourceFile looks at the extension alone, so that an event on a
\* directory with a supported extension reaches the switch. The instant of
\* an event is the instant debounceFile reads the clock. The error that
\* handleFileDeleted returns for a Remove or a Rename is dropped.
HandleEvent(ok) ==
    /\ ProcessRuns
    /\ events # <<>>
    /\ events' = Tail(events)
    /\ LET e == Head(events) IN
       IF MatchesIgnore(e.path) \/ ~IsSourceFile(e.path) \/ SwitchCase(e.ops) = "none"
       THEN UNCHANGED <<storeVars, pendingFiles, burst, lastWriter>>
       ELSE IF SwitchCase(e.ops) \in {"write", "create"}
       THEN /\ pendingFiles' = DebounceFile(pendingFiles, e.path, clock)
            /\ burst' = [burst EXCEPT ![e.path] =
                            IF HasPending(pendingFiles, e.path)
                            THEN [@ EXCEPT !.n = Min(@ + 1, MaxBurst), !.last = clock]
                            ELSE [NoBurst EXCEPT !.n = 1, !.last = clock]]
            /\ UNCHANGED <<storeVars, lastWriter>>
       ELSE /\ HandleFileDeleted(e.path, ok)
            /\ UNCHANGED <<pendingFiles, burst>>
    /\ UNCHANGED <<nonWatchVars, run, done, latest, enr, clock, disk, deb>>

\* The ticker of processDebounced fires and processPendingFiles, holding the
\* lock, moves every entry whose deadline has passed to ready.
Tick(order) ==
    /\ ProcessRuns
    /\ deb.pc = "idle"
    /\ order # <<>>
    /\ order \in Orders(ReadyPaths(pendingFiles, clock))
    /\ pendingFiles' = {e \in pendingFiles : e.path \notin ReadyPaths(pendingFiles, clock)}
    /\ deb' = [DebIdle EXCEPT !.pc = "stat", !.ready = order]
    /\ burst' = [f \in DOMAIN burst |->
                    IF f \in ReadyPaths(pendingFiles, clock)
                    THEN [burst[f] EXCEPT !.flushes = Min(@ + 1, 2), !.flushedAt = clock,
                                          !.reindexes = 0]
                    ELSE burst[f]]
    /\ UNCHANGED <<storeVars, nonWatchVars, run, done, lastWriter, latest, enr, clock, disk, events>>

\* The debounce goroutine after reindexFile has returned: the next path of
\* ready, or the next tick.
DebNext(d) ==
    IF Len(d.ready) > 1
    THEN [DebIdle EXCEPT !.pc = "stat", !.ready = Tail(d.ready)]
    ELSE DebIdle

\* reindexFile: os.Stat(path).
ReindexStat ==
    /\ ProcessRuns
    /\ deb.pc = "stat"
    /\ deb' = [deb EXCEPT !.pc = IF disk[Head(deb.ready)].exists THEN "scan" ELSE "gone"]
    /\ burst' = [burst EXCEPT ![Head(deb.ready)] =
                    IF @.flushes >= 1 THEN [@ EXCEPT !.reindexes = Min(@ + 1, 2)] ELSE @]
    /\ UNCHANGED <<storeVars, nonWatchVars, run, done, lastWriter, latest, enr, clock, disk, events, pendingFiles>>

\* reindexFile: the file does not exist, handleFileDeleted and return; its
\* error is the error of reindexFile, which processPendingFiles logs.
ReindexGone(ok) ==
    /\ ProcessRuns
    /\ deb.pc = "gone"
    /\ HandleFileDeleted(Head(deb.ready), ok)
    /\ deb' = IF ok THEN DebNext(deb)
              ELSE [DebNext(deb) EXCEPT !.err = "failed to delete nodes for file"]
    /\ UNCHANGED <<nonWatchVars, run, done, latest, enr, clock, disk, events, pendingFiles, burst>>

\* A reindexFile that deletes the nodes of the file when the scan fails.
AfterScanErrorDeleted(N, path) == DeleteNodeRows(N, path)

\* reindexFile returns the error of ScanFile at once: the rows of table nodes
\* when it returns are those it found.
AfterScanError(N, path) == N

\* reindexFile: ScanFile(path); a file that cannot be read or parsed, and a
\* directory, is an error, which reindexFile returns and processPendingFiles
\* logs.
ReindexScan(ok) ==
    /\ ProcessRuns
    /\ deb.pc = "scan"
    /\ IF ok /\ disk[Head(deb.ready)].exists /\ Head(deb.ready) \notin WatchDirs
       THEN /\ deb' = [deb EXCEPT !.pc = "delete",
                                  !.scanned = ScanFileRows(Head(deb.ready),
                                                           disk[Head(deb.ready)])]
            /\ nodes' = nodes
       ELSE /\ deb' = [DebNext(deb) EXCEPT !.err = "scan failed"]
            /\ nodes' = AfterScanError(nodes, Head(deb.ready))
    /\ UNCHANGED <<edges, lastOp, nonWatchVars, run, done, lastWriter, latest, enr, clock, disk, events, pendingFiles, burst>>

\* reindexFile: DeleteNodesByFile(path). When it fails reindexFile returns
\* the error and the rows stay.
ReindexDelete(ok) ==
    /\ ProcessRuns
    /\ deb.pc = "delete"
    /\ IF ok
       THEN /\ nodes' = DeleteNodeRows(nodes, Head(deb.ready))
            /\ edges' = CascadeEdgeRows(edges,
                            NodeIDs(nodes) \ NodeIDs(DeleteNodeRows(nodes, Head(deb.ready))))
            /\ lastOp' = Op("DeleteNodesByFile", Head(deb.ready),
                            NodeIDs(nodes) \ NodeIDs(DeleteNodeRows(nodes, Head(deb.ready))),
                            TRUE, <<>>, {})
            /\ lastWriter' = [lastWriter EXCEPT ![Head(deb.ready)] =
                                 [by |-> "watcher", rows |-> {}]]
            /\ deb' = [deb EXCEPT !.pc = "upsert", !.k = 1]
       ELSE /\ lastOp' = Op("DeleteNodesByFile", Head(deb.ready), {}, FALSE, <<>>, {})
            /\ deb' = [DebNext(deb) EXCEPT !.err = "delete old nodes failed"]
            /\ UNCHANGED <<nodes, edges, lastWriter>>
    /\ UNCHANGED <<nonWatchVars, run, done, latest, enr, clock, disk, events, pendingFiles, burst>>

\* reindexFile: one turn of the loop of UpsertNode. When the statement fails
\* reindexFile returns the error: the rows stored by the turns before it
\* stay, the rest of the nodes is not stored and Enrich is not called.
ReindexUpsert(ok) ==
    /\ ProcessRuns
    /\ deb.pc = "upsert"
    /\ deb.k <= Len(deb.scanned)
    /\ IF ok
       THEN /\ nodes' = UpsertNodeRows(nodes, deb.scanned[deb.k])
            /\ lastOp' = Op("UpsertNode", NoFile, {}, TRUE, <<>>, {})
            /\ deb' = [deb EXCEPT !.k = @ + 1]
            /\ lastWriter' = [lastWriter EXCEPT ![Head(deb.ready)].rows =
                                 @ \cup {deb.scanned[deb.k]}]
       ELSE /\ lastOp' = Op("UpsertNode", NoFile, {}, FALSE, <<>>, {})
            /\ deb' = [DebNext(deb) EXCEPT !.err = "store node failed"]
            /\ UNCHANGED <<nodes, lastWriter>>
    /\ UNCHANGED <<edges, nonWatchVars, run, done, latest, enr, clock, disk, events, pendingFiles, burst>>

\* reindexFile: Enrich on the nodes of the file, after the last UpsertNode,
\* to the start of its workers. A file with no node returns no edge; an
\* error of the language servers is logged and no edge is returned; else the
\* every node is put on the channel of the workers. Either way the clients
\* registered stay with the service, those whose initialize failed too.
ReindexEnrich(ok, started, registered) ==
    /\ ProcessRuns
    /\ deb.pc = "upsert"
    /\ deb.k > Len(deb.scanned)
    /\ EnrichStarts(deb.scanned, ok, started, registered)
    /\ enr' = [enr EXCEPT !.clients = @ \cup registered]
    /\ deb' = IF EnrichFails(deb.scanned, ok, started)
              THEN [deb EXCEPT !.pc = "edges", !.enrichErr = TRUE]
              ELSE IF DetectRequiredLanguages(deb.scanned) = {}
              THEN [deb EXCEPT !.pc = "edges"]
              ELSE [deb EXCEPT !.pc = "enriching", !.todo = Elems(deb.scanned)]
    /\ UNCHANGED <<storeVars, nonWatchVars, run, done, lastWriter, latest, clock, disk, events, pendingFiles, burst>>

\* A worker of that Enrich takes the node n and opens its document on the
\* disk of this moment. The nodes of ScanFile have the kind "name", which is
\* no definition: the worker goes on to the next node with no request to the
\* language server, and after the last node Enrich returns no edge.
ReindexWorkerOpen(n, ok) ==
    /\ ProcessRuns
    /\ deb.pc = "enriching"
    /\ n \in deb.todo
    /\ OpenOutcome(deb, n, ok, disk, enr.clients)
    /\ deb' = TakeNode(deb, n, ok, enr.clients)
    /\ UNCHANGED <<storeVars, nonWatchVars, run, done, lastWriter, latest, enr, clock, disk, events, pendingFiles, burst>>

\* reindexFile: one turn of the loop of UpsertEdge, whose error is logged, or
\* the return after the last edge.
ReindexStoreEdges ==
    /\ ProcessRuns
    /\ deb.pc = "edges"
    /\ IF deb.found = {}
       THEN /\ deb' = DebNext(deb)
            /\ UNCHANGED edges
       ELSE \E e \in deb.found, ok \in BOOLEAN :
               /\ edges' = IF ok THEN UpsertEdgeRows(nodes, edges, e) ELSE edges
               /\ deb' = [deb EXCEPT !.found = @ \ {e}]
    /\ UNCHANGED <<nodes, lastOp, nonWatchVars, run, done, lastWriter, latest, enr, clock, disk, events, pendingFiles, burst>>

\* Time passes.
Advance ==
    /\ clock < MaxTime
    /\ clock' = clock + 1
    /\ UNCHANGED <<storeVars, nonWatchVars, run, done, lastWriter, latest, enr, disk, events, pendingFiles, deb, burst>>

----------------------------------------------------------------------------
(* SpecWatch: the watcher on a workspace that was indexed at startup *)

InitWatch ==
    /\ impact = ImpactIdle
    /\ storeCall = StoreCallsIdle
    /\ LifeUnused
    /\ clock = 0
    /\ disk \in [SourcePaths -> Contents \cup {NoContent}]
    /\ events = <<>>
    /\ pendingFiles = {}
    /\ deb = DebIdle
    /\ burst = [f \in SourcePaths |-> NoBurst]
    /\ run = RunIdle
    /\ done = <<>>
    /\ lastWriter = [f \in SourcePaths |-> NoWriter]
    /\ latest = {}
    /\ LspUnused
    /\ enr = [EnrichIdle EXCEPT !.clients = DetectRequiredLanguages(ScanRows(disk))]
    /\ nodes = Elems(ScanRows(disk))
    /\ edges = {}
    /\ lastOp = Op("BulkUpsertNodes", NoFile, {}, TRUE, ScanRows(disk), {})

NextWatch ==
    \/ \E f \in SourcePaths, c \in Contents : FsWrite(f, c)
    \/ \E f \in SourcePaths, op \in {"remove", "rename"} : FsRemove(f, op)
    \/ \E p \in WatchFiles, op \in EventOps : FsOther(p, op)
    \/ \E ok \in BOOLEAN : HandleEvent(ok)
    \/ \E order \in UNION {Orders(S) : S \in SUBSET SourcePaths} : Tick(order)
    \/ ReindexStat
    \/ \E ok \in BOOLEAN : ReindexGone(ok)
    \/ \E ok \in BOOLEAN : ReindexScan(ok)
    \/ \E ok \in BOOLEAN : ReindexDelete(ok)
    \/ \E ok \in BOOLEAN : ReindexUpsert(ok)
    \/ \E ok \in BOOLEAN, registered \in SUBSET DetectRequiredLanguages(deb.scanned) :
          \E started \in SUBSET registered : ReindexEnrich(ok, started, registered)
    \/ \E n \in deb.todo, ok \in BOOLEAN : ReindexWorkerOpen(n, ok)
    \/ ReindexStoreEdges
    \/ Advance

SpecWatch == InitWatch /\ [][NextWatch]_vars

PendingDeadline(P, path) == (CHOOSE e \in P : e.path = path).deadline

\* C11: the Write/Create events on a supported file that are handled while
\* its entry is pending make one burst. Every event of the burst sets the
\* deadline to its own instant plus 500 ms; the entry stays pending for as
\* long as 500 ms have not passed since the last event, so that events no more
\* than 500 ms apart fall in one burst; the entry is flushed once and
\* reindexFile is entered once for it, and when the entry is gone and the
\* debounce goroutine is back at its ticker the burst was reindexed exactly
\* once.
BurstReindexedOnce ==
    \A f \in SourcePaths :
        /\ HasPending(pendingFiles, f) =>
              /\ burst[f].n >= 1
              /\ burst[f].flushes = 0
              /\ PendingDeadline(pendingFiles, f) = burst[f].last + DebounceTime
        /\ (burst[f].n >= 1 /\ clock <= burst[f].last + DebounceTime) =>
              HasPending(pendingFiles, f)
        /\ burst[f].flushes <= 1
        /\ burst[f].reindexes <= burst[f].flushes
        /\ burst[f].flushes = 1 => burst[f].flushedAt > burst[f].last + DebounceTime
        /\ (burst[f].n >= 1 /\ ~HasPending(pendingFiles, f) /\ deb.pc = "idle") =>
              (burst[f].flushes = 1 /\ burst[f].reindexes = 1)

\* A burst of several events, the last of them later than the first instant,
\* was flushed and reindexed once.
BurstOfSeveralReindexed ==
    \E f \in SourcePaths :
        /\ burst[f].n >= 2
        /\ burst[f].last >= 1
        /\ burst[f].flushes = 1
        /\ burst[f].reindexes = 1
        /\ ~HasPending(pendingFiles, f)
        /\ deb.pc = "idle"

\* No reindex of f is running or waiting in ready.
NoReindexOf(f) == \A i \in 1..Len(deb.ready) : deb.ready[i] # f

\* C13: when a file is gone from the disk, its Remove event has been handled,
\* it has no pending entry and no reindex of it is running, the store holds
\* no node with its file_path.
RemovedFileLeavesNoNodes ==
    \A f \in SourcePaths :
        (/\ ~disk[f].exists
         /\ events = <<>>
         /\ ~HasPending(pendingFiles, f)
         /\ NoReindexOf(f)) =>
            \A n \in nodes : n.file_path # f

----------------------------------------------------------------------------
(* SpecEvents: the watcher on events of every mask, on the source file, on *)
(* a directory with a supported extension, on a file of another extension  *)
(* and on an ignored file, with pending entries and reindexes in progress. *)

\* What is at a path that exists: the source file holds F, a directory holds
\* no text.
Present(p) == IF p \in WatchDirs THEN Content(<<>>) ELSE Content(<<Def("F", 1)>>)

\* A process acts on the path p in the first 100 ms, so that the path exists
\* afterwards or not, and fsnotify reports it with the mask ops.
FsEvent(p, ops, exists) ==
    /\ clock = 0
    /\ Len(events) < MaxQueue
    /\ disk' = [f \in DOMAIN disk |->
                   IF f # p THEN disk[f] ELSE IF exists THEN Present(p) ELSE NoContent]
    /\ events' = Append(events, Event(p, ops))
    /\ UNCHANGED <<storeVars, nonWatchVars, run, done, lastWriter, latest, enr, clock, pendingFiles, deb, burst>>

\* Watch receives an event within the 100 ms in which it was reported, and
\* the watcher is followed until the entries of the first events are flushed.
EventsAdvance == events = <<>> /\ clock <= DebounceTime /\ Advance

InitEvents ==
    /\ impact = ImpactIdle
    /\ storeCall = StoreCallsIdle
    /\ LifeUnused
    /\ clock = 0
    /\ disk \in [SwitchPaths -> {Content(<<>>), Content(<<Def("F", 1)>>), NoContent}]
    /\ \A p \in SwitchPaths : disk[p].exists => disk[p] = Present(p)
    /\ events = <<>>
    /\ pendingFiles = {}
    /\ deb = DebIdle
    /\ burst = [f \in SwitchPaths |-> NoBurst]
    /\ run = RunIdle
    /\ done = <<>>
    /\ lastWriter = [f \in SwitchPaths |-> NoWriter]
    /\ latest = {}
    /\ LspUnused
    /\ enr = [EnrichIdle EXCEPT !.clients = DetectRequiredLanguages(ScanRows(disk))]
    /\ nodes = Elems(ScanRows(disk))
    /\ edges = {}
    /\ lastOp = Op("BulkUpsertNodes", NoFile, {}, TRUE, ScanRows(disk), {})

NextEvents ==
    \/ \E p \in WatchPaths, ops \in EventMasks, exists \in BOOLEAN : FsEvent(p, ops, exists)
    \/ \E ok \in BOOLEAN : HandleEvent(ok)
    \/ \E order \in UNION {Orders(S) : S \in SUBSET SwitchPaths} : Tick(order)
    \/ ReindexStat
    \/ \E ok \in BOOLEAN : ReindexGone(ok)
    \/ \E ok \in BOOLEAN : ReindexScan(ok)
    \/ \E ok \in BOOLEAN : ReindexDelete(ok)
    \/ \E ok \in BOOLEAN : ReindexUpsert(ok)
    \/ \E ok \in BOOLEAN, registered \in SUBSET DetectRequiredLanguages(deb.scanned) :
          \E started \in SUBSET registered : ReindexEnrich(ok, started, registered)
    \/ \E n \in deb.todo, ok \in BOOLEAN : ReindexWorkerOpen(n, ok)
    \/ ReindexStoreEdges
    \/ EventsAdvance

SpecEvents == InitEvents /\ [][NextEvents]_vars

\* The step is handleEvent on an event on the path p whose mask is one of
\* masks.
Handles(p, masks) ==
    /\ events # <<>>
    /\ events' = Tail(events)
    /\ Head(events).path = p
    /\ Head(events).ops \in masks

\* The step calls DeleteNodesByFile(p) and leaves the pending entries alone:
\* the rows of p are deleted, or the statement fails and the rows stay.
DeletesNow(p) ==
    /\ \/ /\ lastOp' = Op("DeleteNodesByFile", p,
                          NodeIDs(nodes) \ NodeIDs(DeleteNodeRows(nodes, p)), TRUE, <<>>, {})
          /\ nodes' = DeleteNodeRows(nodes, p)
       \/ /\ lastOp' = Op("DeleteNodesByFile", p, {}, FALSE, <<>>, {})
          /\ nodes' = nodes
    /\ pendingFiles' = pendingFiles

\* C12 as stated: the handling of a Remove event or of a Rename event on any
\* file under the root calls delete_nodes_by_file(path).
RemoveOfAnyFileDeletes ==
    [][\A p \in WatchFiles : Handles(p, {{"remove"}, {"rename"}}) => DeletesNow(p)]_vars

\* The masks with the Remove or the Rename bit and neither the Write nor the
\* Create bit.
RemoveMasks == {m \in EventMasks : m \cap {"remove", "rename"} # {} /\ m \cap {"write", "create"} = {}}

\* C12: the handling of an event whose mask has the Remove or the Rename bit
\* and neither the Write nor the Create bit, on a path with a supported
\* extension that .gitignore does not match, a file or a directory, calls
\* delete_nodes_by_file(path) in the same step and leaves the pending
\* entries alone; the handling of any other event calls no store operation.
RemoveOfSourcePathDeletes ==
    [][/\ \A p \in SwitchPaths : Handles(p, RemoveMasks) => DeletesNow(p)
       /\ \A p \in SwitchPaths : Handles(p, EventMasks \ RemoveMasks) => UNCHANGED storeVars
       /\ \A p \in WatchPaths \ SwitchPaths : Handles(p, EventMasks) => UNCHANGED storeVars]_vars

\* The nodes of the source file were deleted by the handling of an event on
\* it while the directory had a pending entry, and the file has none.
RemoveEventDeletedNodes ==
    \E f \in SourcePaths, d \in WatchDirs :
        /\ lastOp.op = "DeleteNodesByFile"
        /\ lastOp.file = f
        /\ lastOp.ids # {}
        /\ ~HasPending(pendingFiles, f)
        /\ HasPending(pendingFiles, d)
        /\ events = <<>>

----------------------------------------------------------------------------
(* SpecRace: the watcher from the instant main has started it, the start of *)
(* the server, and one index tool call on the same workspace, the first     *)
(* call the server takes: the status it reads is not_started. The file of   *)
(* the workspace holds functions, so that no worker asks for the            *)
(* implementations of an interface.                                         *)

\* The process is followed while it runs: the select of main that ends it
\* is a step of Spec.

\* The workspace is edited in the first 100 ms.
RaceWrite(f, c) == clock = 0 /\ FsWrite(f, c)

RaceRemove(f) == clock = 0 /\ FsRemove(f, "remove")

\* Time passes, for as long as it takes the entry of an event handled at the
\* first instant to be flushed.
RaceAdvance == clock <= DebounceTime /\ Advance

\* main has started the goroutine of the watcher on the workspace it
\* indexed and has yet to start the server.
InitRace ==
    /\ impact = ImpactIdle
    /\ storeCall = StoreCallsIdle
    /\ life = NewLife
    /\ mainPc = "server"
    /\ idx = [i \in IndexCalls |-> IndexIdle]
    /\ qry = [q \in Queriers |-> QueryIdle]
    /\ lastEnded = NoRun
    /\ clock = 0
    /\ disk \in [SourcePaths -> Contents \cup {NoContent}]
    /\ events = <<>>
    /\ pendingFiles = {}
    /\ deb = DebIdle
    /\ burst = [f \in SourcePaths |-> NoBurst]
    /\ run = RunIdle
    /\ done = <<>>
    /\ lastWriter = [f \in SourcePaths |-> NoWriter]
    /\ latest = {}
    /\ LspUnused
    /\ enr = [EnrichIdle EXCEPT !.clients = DetectRequiredLanguages(ScanRows(disk))]
    /\ nodes = Elems(ScanRows(disk))
    /\ edges = {}
    /\ lastOp = Op("BulkUpsertNodes", NoFile, {}, TRUE, ScanRows(disk), {})

NextRace ==
    \/ \E f \in SourcePaths, c \in Contents : RaceWrite(f, c)
    \/ \E f \in SourcePaths : RaceRemove(f)
    \/ \E ok \in BOOLEAN : HandleEvent(ok)
    \/ \E order \in UNION {Orders(S) : S \in SUBSET SourcePaths} : Tick(order)
    \/ ReindexStat
    \/ \E ok \in BOOLEAN : ReindexGone(ok)
    \/ \E ok \in BOOLEAN : ReindexScan(ok)
    \/ \E ok \in BOOLEAN : ReindexDelete(ok)
    \/ \E ok \in BOOLEAN : ReindexUpsert(ok)
    \/ \E ok \in BOOLEAN, registered \in SUBSET DetectRequiredLanguages(deb.scanned) :
          \E started \in SUBSET registered : ReindexEnrich(ok, started, registered)
    \/ \E n \in deb.todo, ok \in BOOLEAN : ReindexWorkerOpen(n, ok)
    \/ ReindexStoreEdges
    \/ RaceAdvance
    \/ MainStartServer
    \/ (done = <<>> /\ RunCall)
    \/ RunSetInProgress
    \/ \E ok \in BOOLEAN : RunScan(ok)
    \/ \E ok \in BOOLEAN : RunStoreNodes(ok)
    \/ \E ok \in BOOLEAN : RunPruneStale(ok)
    \/ \E f \in SourcePaths, ok \in BOOLEAN : RunPruneDelete(f, ok)
    \/ \E ok \in BOOLEAN, registered \in SUBSET DetectRequiredLanguages(run.batch) :
          \E started \in SUBSET registered : RunEnrich(ok, started, registered)
    \/ \E n \in run.todo, ok \in BOOLEAN : RunWorkerOpen(n, ok)
    \/ \E w \in run.wk, ok \in BOOLEAN : RunFindReferences(w, ok)
    \/ \E w \in run.wk, ok \in BOOLEAN : \E loc \in w.locs : RunFindNode(w, loc, ok)
    \/ \E ok \in BOOLEAN : RunStoreEdges(ok)
    \/ RunFinish

SpecRace == InitRace /\ [][NextRace]_vars

\* The nodes the store holds for the file f.
NodesOf(f) == {n \in nodes : n.file_path = f}

\* C14: when the watcher has no reindex running or pending and the index
\* tool call has returned, the nodes stored for a file that either of them
\* wrote are exactly the nodes written by the one that wrote the file last.
LastWriterWins ==
    \A f \in SourcePaths :
        (/\ deb.pc = "idle"
         /\ ~HasPending(pendingFiles, f)
         /\ events = <<>>
         /\ run.pc = "idle"
         /\ lastWriter[f].by # "none") =>
            NodesOf(f) = lastWriter[f].rows

----------------------------------------------------------------------------
(* SpecScan: index tool calls on a workspace that does not change *)

\* The files of the workspace: two of Go and one of TypeScript.
ScanFiles == Files \cup {"/w/c.ts"}

\* F of a.go calls Helper of b.go on the second line of its body.
WsCallInBody ==
    [f \in ScanFiles |->
        IF f = "/w/a.go"
        THEN ContentCalling(<<Def("F", 1)>>, {Call(2, "F", "Helper")})
        ELSE IF f = "/w/b.go" THEN Content(<<Def("Helper", 1)>>)
        ELSE NoContent]

\* F of a.go calls Helper of b.go on the line of its own name token.
WsCallOnNameLine ==
    [f \in ScanFiles |->
        IF f = "/w/a.go"
        THEN ContentCalling(<<Def("F", 1)>>, {Call(1, "F", "Helper")})
        ELSE IF f = "/w/b.go" THEN Content(<<Def("Helper", 1)>>)
        ELSE NoContent]

\* a.go holds two definitions called F, as two methods of different types.
WsSameName ==
    [f \in ScanFiles |->
        IF f = "/w/a.go"
        THEN Content(<<Def("F", 1), Def("F", 2)>>)
        ELSE IF f = "/w/b.go" THEN Content(<<Def("G", 1)>>)
        ELSE NoContent]

\* a.go holds F and G, G calls F on its name line and on the next; no b.go.
WsOneFile ==
    [f \in ScanFiles |->
        IF f = "/w/a.go"
        THEN ContentCalling(<<Def("F", 1), Def("G", 2)>>,
                            {Call(2, "G", "F"), Call(3, "G", "F")})
        ELSE NoContent]

\* a.go holds F; c.ts holds the interface I on its first line and on its
\* second the class K, which implements I and so names it there.
WsInterface ==
    [f \in ScanFiles |->
        IF f = "/w/a.go" THEN Content(<<Def("F", 1)>>)
        ELSE IF f = "/w/c.ts"
        THEN ContentImplementing(<<KindDef("I", 1, "interface_declaration"),
                                   KindDef("K", 2, "class_declaration")>>,
                                 {Call(2, "K", "I")}, {Impl(2, "I")})
        ELSE NoContent]

Workspaces == {WsCallInBody, WsCallOnNameLine, WsSameName, WsOneFile, WsInterface}

ScanNames == {"F", "G", "Helper", "I", "K"}

ScanIDs == {GenerateNodeID(Rel(f), n) : f \in ScanFiles, n \in ScanNames}

InitScan ==
    /\ impact = ImpactIdle
    /\ storeCall = StoreCallsIdle
    /\ LifeUnused
    /\ clock = 0
    /\ disk \in Workspaces
    /\ events = <<>>
    /\ pendingFiles = {}
    /\ deb = DebIdle
    /\ burst = [f \in SourcePaths |-> NoBurst]
    /\ run = RunIdle
    /\ done = <<>>
    /\ lastWriter = [f \in ScanFiles |-> NoWriter]
    /\ latest = {}
    /\ LspUnused
    /\ enr = EnrichIdle
    /\ nodes = {}
    /\ edges = {}
    /\ lastOp = Op("New", NoFile, {}, TRUE, <<>>, {})

\* No call finds a row of a file that the scan did not find: the disk does
\* not change and the store was empty, so that the loop of PruneStaleFiles
\* has no turn.
ScanLeavesNoStaleFile ==
    run.pc = "prune" => StaleFiles(nodes, ValidFiles(run.batch)) = {}

\* The client issues one tool call at a time: an index call when no query
\* is under way.
ScanIndexCall == impact.pc = "idle" /\ RunCall

\* A find_impact call when no index call is under way and the status is
\* ready, for which the handler waits.
ScanFindImpact(name) == run.pc = "idle" /\ life.status = "ready" /\ FindImpactStart(name)

NextScan ==
    \/ ScanIndexCall
    \/ RunRearm
    \/ RunSetInProgress
    \/ \E ok \in BOOLEAN : RunScan(ok)
    \/ \E ok \in BOOLEAN : RunStoreNodes(ok)
    \/ \E ok \in BOOLEAN : RunPruneStale(ok)
    \/ \E ok \in BOOLEAN, registered \in SUBSET DetectRequiredLanguages(run.batch) :
          \E started \in SUBSET registered : RunEnrich(ok, started, registered)
    \/ \E n \in run.todo, ok \in BOOLEAN : RunWorkerOpen(n, ok)
    \/ \E w \in run.wk, ok \in BOOLEAN : RunFindReferences(w, ok)
    \/ \E w \in run.wk, ok \in BOOLEAN : RunFindImplementations(w, ok)
    \/ \E w \in run.wk, ok \in BOOLEAN : \E loc \in w.locs : RunFindNode(w, loc, ok)
    \/ \E ok \in BOOLEAN : RunStoreEdges(ok)
    \/ RunFinish
    \/ \E name \in ScanNames : ScanFindImpact(name)
    \/ \E t \in ScanIDs : FindImpactBase(t)
    \/ \E r \in ScanIDs : FindImpactStep(r)
    \/ FindImpactCollect
    \/ FindImpactReturn

SpecScan == InitScan /\ [][NextScan]_vars

\* An index tool call has returned its counts, after no call that failed,
\* and none is running.
Indexed ==
    /\ done # <<>>
    /\ run.pc = "idle"
    /\ \A k \in 1..Len(done) : ~done[k].result.isError

\* The line of the name token of the definition called name in the file.
NameLines(content, name) ==
    {content.defs[i].line : i \in {j \in 1..Len(content.defs) : content.defs[j].name = name}}

\* The calls of file f made on a line of the caller's body that is not the
\* line of its name token, to a function defined in another file.
BodyCalls(d, f) ==
    {c \in d[f].calls :
        /\ c.line \notin NameLines(d[f], c.caller)
        /\ \E g \in DOMAIN d \ {f} : NameLines(d[g], c.callee) # {}}

\* The documents the k-th call could not open and the requests the language
\* server failed; the lookups of the resolver that failed are left out.
LspFaults(k) == {f \in done[k].faults : f[1] # "lookup"}

\* Every call so far had a client for every language of the workspace, every
\* document opened, every request answered and every lookup made.
NoFault ==
    \A k \in 1..Len(done) :
        /\ done[k].faults = {}
        /\ DetectRequiredLanguages(ScanRows(disk)) \subseteq done[k].clients

\* C15: after index, with the language server reporting every call site,
\* for every call made in the body of F, on a line other than that of F's
\* name token, to a Helper defined in another file, the result of
\* find_impact(Helper) holds the node of F.
CallerInBodyIsImpacted ==
    (Indexed /\ NoFault) =>
        \A f \in DOMAIN disk : \A c \in BodyCalls(disk, f) :
            \E n \in FindImpact(nodes, edges, c.callee) :
                n.name = c.caller /\ n.file_path = f

\* C16: after index on an empty store, the number of nodes stored for each
\* file is the number of nodes the scan emitted for it, one for each
\* definition matched, also when two definitions of the file have one name.
StoredCountIsScannedCount ==
    Indexed =>
        \A f \in DOMAIN disk :
            \A q \in GetSymbolsInFile(nodes, f) : Len(q) = Len(ScanPaths(disk, <<f>>))

\* The record of the k-th index tool call that returned.
SameRun(k, l) ==
    /\ done[k].result = done[l].result
    /\ done[k].nodes = done[l].nodes
    /\ done[k].edges = done[l].edges

\* The language server answered the calls k and l alike: the same languages
\* had a client, and the same documents and requests failed.
SameAnswers(k, l) == done[k].clients = done[l].clients /\ LspFaults(k) = LspFaults(l)

\* The first two index calls returned a success result, with a language
\* server that answered them alike.
IndexedTwice ==
    /\ Len(done) >= 2
    /\ ~done[1].result.isError
    /\ ~done[2].result.isError
    /\ SameAnswers(1, 2)

\* C17: on a workspace that does not change and with a language
\* server that answers deterministically, the second of two successive
\* successful index calls reports the node count and the edge count of the
\* first, and leaves the node set and the edge set the first left.
SecondIndexReportsSame == IndexedTwice => SameRun(1, 2)

----------------------------------------------------------------------------
(* SpecUpsert: any sequence of upsert_node calls on an empty database *)

\* Another value for each column that an upsert sets.
OtherValue ==
    [name |-> "G", kind |-> "method_declaration", file_path |-> "/w/b.go",
     line_start |-> 2, line_end |-> 3, col_start |-> 2, col_end |-> 9,
     symbol_uri |-> PathToURI("/w/b.go")]

\* The node F of a.go with the columns of chg set to their other value.
Changed(id, chg) ==
    [c \in NodeColumns |->
        IF c = "id" THEN id
        ELSE IF c \in chg THEN OtherValue[c]
        ELSE Node("/w/a.go", "F", 1)[c]]

\* The fields of graph.Node other than ID.
ValueColumns == NodeColumns \ {"id"}

UpsertIDs == {GenerateNodeID("a.go", "F"), GenerateNodeID("b.go", "G")}

\* The nodes given to upsert_node: for each id, one node, the nodes that
\* differ from it in one column, and the node that differs in every column.
UpsertInputs ==
    {Changed(id, chg) : id \in UpsertIDs,
                        chg \in {{}} \cup {{c} : c \in ValueColumns} \cup {ValueColumns}}

\* Store.UpsertNode, and the record of the node given last for each id.
UpsertNodeCall(n) ==
    /\ nodes' = UpsertNodeRows(nodes, n)
    /\ lastOp' = Op("UpsertNode", NoFile, {}, TRUE, <<>>, {})
    /\ latest' = {m \in latest : m.id # n.id} \cup {n}
    /\ UNCHANGED <<edges, impact, storeCall, lifeVars, watcherVars, run, done, lastWriter, enr, lspVars>>

InitUpsert ==
    /\ impact = ImpactIdle
    /\ storeCall = StoreCallsIdle
    /\ WatchUnused
    /\ LifeUnused
    /\ nodes = {}
    /\ edges = {}
    /\ lastOp = Op("New", NoFile, {}, TRUE, <<>>, {})

NextUpsert == \E n \in UpsertInputs : UpsertNodeCall(n)

SpecUpsert == InitUpsert /\ [][NextUpsert]_vars

\* C18: after any sequence of upsert_node calls the store holds at most one
\* node for each id, and the node of an id has the name, kind, file_path,
\* positions and symbol_uri of the upsert made last with that id.
UpsertKeepsLatest ==
    /\ \A n, m \in nodes : n.id = m.id => n = m
    /\ nodes = latest

\* An id was upserted again with another symbol_uri and another name than
\* the other id holds.
UpsertReplacedRow ==
    \E n, m \in nodes :
        /\ n.id # m.id
        /\ n.symbol_uri = OtherValue.symbol_uri
        /\ n.name = "F"
        /\ m = Changed(m.id, ValueColumns)

\* The watcher has reindexed a file and gone back to its ticker, and an index
\* tool call that began after that has returned.
ReindexThenIndex(f) ==
    /\ deb.pc = "idle"
    /\ ~HasPending(pendingFiles, f)
    /\ events = <<>>
    /\ run.pc = "idle"
    /\ done # <<>>
    /\ lastWriter[f].by = "index"

\* C19: the single-file scan gives every symbol of a file the id the full
\* scan gives it, and after a watcher reindex of a file followed by a full
\* index the store holds one node for each (file_path, name) of the file.
ScanFileAgreesWithScan ==
    \A f \in SourcePaths :
        /\ disk[f].exists =>
              NodeIDs(Elems(ScanFileRows(f, disk[f]))) = NodeIDs(Elems(ScanOneRows(f, disk[f])))
        /\ ReindexThenIndex(f) =>
              \A n, m \in NodesOf(f) : n.name = m.name => n = m

----------------------------------------------------------------------------
(* SpecEnrich: calls of Service.Enrich, one after the other *)

\* detectRequiredLanguages: the languages of the files of the nodes.
EnrichDetect ==
    /\ enr.pc = "detect"
    /\ enr' = IF enr.required = {}
              THEN [enr EXCEPT !.pc = "returned"]
              ELSE [enr EXCEPT !.pc = "validate"]
    /\ UNCHANGED <<storeVars, nonWatchVars, watcherVars, run, done, lastWriter, latest>>

\* validateLanguageServers: the error names the languages whose executable
\* was not found, and Enrich returns it with no edge.
EnrichValidate ==
    /\ enr.pc = "validate"
    /\ enr' = IF MissingServers(enr.required, enr.installed) # {}
              THEN [enr EXCEPT !.pc = "returned",
                               !.err = EnrichError("not found",
                                          MissingServers(enr.required, enr.installed))]
              ELSE [enr EXCEPT !.pc = "start"]
    /\ UNCHANGED <<storeVars, nonWatchVars, watcherVars, run, done, lastWriter, latest>>

\* detectAndStartLanguageServers: StartClient for each language. For a
\* language with an entry in s.clients it returns nil at once. Otherwise a
\* process is spawned, which may fail, and its client registered; then
\* initialize is called, which may fail too. The languages started are those
\* for which StartClient returned nil.
EnrichStart(spawned, ok) ==
    /\ enr.pc = "start"
    /\ LET candidates == {l \in enr.required : ServerCommand(l) \in enr.installed}
           already == candidates \cap enr.clients
       IN /\ spawned \subseteq candidates \ already
          /\ ok \subseteq spawned
          /\ enr' = IF already \cup ok = {}
                    THEN [enr EXCEPT !.pc = "returned",
                                     !.clients = @ \cup spawned,
                                     !.err = EnrichError("failed to start any language servers", {})]
                    ELSE [enr EXCEPT !.pc = "query",
                                     !.clients = @ \cup spawned,
                                     !.initialized = @ \cup ok,
                                     !.started = already \cup ok]
    /\ UNCHANGED <<storeVars, nonWatchVars, watcherVars, run, done, lastWriter, latest>>

\* The workers: client := s.getClient(getLang(n.FilePath)) for each node; the
\* languages of the nodes that have an entry in s.clients.
WorkerClients(e) == e.required \cap e.clients

\* The workers send didOpen and the references request to the client of each
\* node's language, and Enrich returns the edges.
EnrichQuery ==
    /\ enr.pc = "query"
    /\ enr' = [enr EXCEPT !.pc = "returned", !.queried = WorkerClients(enr),
                          !.edges = Elems(LspEdges)]
    /\ UNCHANGED <<storeVars, nonWatchVars, watcherVars, run, done, lastWriter, latest>>

\* Enrich is called again, by a later index run or reindex, for nodes of the
\* languages required; the service keeps its clients.
EnrichAgain(required) ==
    /\ enr.pc = "returned"
    /\ enr' = [EnrichIdle EXCEPT !.pc = "detect", !.required = required,
                                 !.installed = enr.installed,
                                 !.clients = enr.clients,
                                 !.initialized = enr.initialized]
    /\ UNCHANGED <<storeVars, nonWatchVars, watcherVars, run, done, lastWriter, latest>>

InitEnrich ==
    /\ impact = ImpactIdle
    /\ storeCall = StoreCallsIdle
    /\ LifeUnused
    /\ clock = 0
    /\ disk = [f \in SourcePaths |-> NoContent]
    /\ events = <<>>
    /\ pendingFiles = {}
    /\ deb = DebIdle
    /\ burst = [f \in SourcePaths |-> NoBurst]
    /\ run = RunIdle
    /\ done = <<>>
    /\ lastWriter = [f \in SourcePaths |-> NoWriter]
    /\ latest = {}
    /\ LspUnused
    /\ \E required \in SUBSET Langs, installed \in SUBSET ServerCommands :
          enr = [EnrichIdle EXCEPT !.pc = "detect", !.required = required,
                                   !.installed = installed]
    /\ nodes = {}
    /\ edges = {}
    /\ lastOp = Op("New", NoFile, {}, TRUE, <<>>, {})

NextEnrich ==
    \/ EnrichDetect
    \/ EnrichValidate
    \/ \E spawned, ok \in SUBSET Langs : EnrichStart(spawned, ok)
    \/ EnrichQuery
    \/ \E required \in SUBSET Langs : EnrichAgain(required)

SpecEnrich == InitEnrich /\ [][NextEnrich]_vars

\* The languages the call requires whose executable is not on the machine.
NotInstalled == {l \in Langs : l \in enr.required /\ ServerCommand(l) \notin enr.installed}

\* C20: when the executable of a required language server is missing, Enrich
\* starts no process and sends no query at any point of the call, and it
\* returns an error that names exactly the languages whose server is
\* missing, with no edge.
MissingServerStopsEnrich ==
    NotInstalled # {} =>
        /\ enr.started = {}
        /\ enr.queried = {}
        /\ enr.pc \in {"detect", "validate", "returned"}
        /\ enr.pc = "returned" =>
              /\ enr.err = EnrichError("not found", NotInstalled)
              /\ enr.edges = {}

\* Enrich returned the error for a call that needs two servers, one of them
\* installed and one missing.
EnrichRefusedPartialSetup ==
    /\ enr.pc = "returned"
    /\ enr.err.text = "not found"
    /\ "go" \in enr.required
    /\ "gopls" \in enr.installed
    /\ enr.err.langs = {"python"}

\* C30: no didOpen, references or implementation message is sent to a
\* language server whose initialize has not completed successfully: the
\* languages whose client the workers of an Enrich call send to are among
\* those whose initialize has succeeded, in that call or an earlier one.
QueriesOnlyInitializedServers == enr.queried \subseteq enr.initialized

\* C32: Enrich never reports success for a partial enrichment: a call that
\* returns without error has started the server of every language its nodes
\* require, and a call for which the server of some required language could
\* not be started returns an error and no edge.
EnrichAllOrNothing ==
    enr.pc = "returned" =>
        IF enr.started = enr.required
        THEN TRUE
        ELSE enr.err.text # "nil" /\ enr.edges = {}

----------------------------------------------------------------------------
(* SpecClient: one lsp.Client, the goroutines that call it, its readLoop   *)
(* and a language server that answers with any frames at any moment.       *)
(* A step takes no time; time passes while every call is waiting, in its   *)
(* select or in its write.                                                 *)

nonClientVars ==
    <<storeVars, impact, storeCall, lifeVars, watcherVars, run, done, lastWriter, latest, enr, svc, pool>>

WriteFailed == "write failed"

\* The positions of a call between its registration and its return.
InFlight == {"registered", "write", "writing", "select", "cleanup", "deleted"}

\* CallWithContext, c.mu.Lock() to c.pending[id] = ch: the next id is taken
\* and a channel of capacity 1 is registered under it. The context is the
\* one the caller made for the method.
CallBegin(c, method, ctx) ==
    /\ rpc[c].pc \in {"idle", "returned"}
    /\ client.mu = Unlocked
    /\ client.seq < MaxSeq
    /\ client' = [client EXCEPT !.mu = c,
                                !.seq = @ + 1,
                                !.pending = @ \cup {client.seq + 1},
                                !.ch[client.seq + 1] = NoResponse]
    /\ rpc' = [rpc EXCEPT ![c] =
                 [CallIdle EXCEPT !.pc = "registered", !.method = method,
                                  !.id = client.seq + 1,
                                  !.ctx = CallContext(method, ctx, time),
                                  !.own = ~ctx.hasDeadline /\ method # DirectMethod,
                                  !.started = time,
                                  !.stopped = IF reader.pc = "exited" THEN reader.why ELSE NoErr]]
    /\ UNCHANGED <<reader, stdin, time, nonClientVars>>

\* Client.Call: CallWithContext(context.Background(), method, params). The
\* context has no deadline and nothing cancels it.
ClientCall(c) == CallBegin(c, DirectMethod, Background)

\* c.mu.Unlock() after the registration.
CallUnlock(c) ==
    /\ rpc[c].pc = "registered"
    /\ client' = [client EXCEPT !.mu = Unlocked]
    /\ rpc' = [rpc EXCEPT ![c].pc = "write"]
    /\ UNCHANGED <<reader, stdin, time, nonClientVars>>

\* WriteMessage(c.stdin, req): the header of the frame is written, the pipe
\* having room for it.
WriteHeader(c) ==
    /\ rpc[c].pc = "write"
    /\ stdin' = stdin \cup {c}
    /\ rpc' = [rpc EXCEPT ![c].pc = "writing"]
    /\ UNCHANGED <<client, reader, time, nonClientVars>>

\* WriteMessage(c.stdin, req): the body is written, the pipe having room for
\* it, or the write fails and CallWithContext returns the error.
WriteBody(c, ok) ==
    /\ rpc[c].pc = "writing"
    /\ stdin' = stdin \ {c}
    /\ rpc' = IF ok THEN [rpc EXCEPT ![c].pc = "select"]
              ELSE [rpc EXCEPT ![c].pc = "cleanup", ![c].result = Outcome(WriteFailed)]
    /\ UNCHANGED <<client, reader, time, nonClientVars>>

\* case res := <-ch
CallReceive(c) ==
    /\ rpc[c].pc = "select"
    /\ client.ch[rpc[c].id] # NoResponse
    /\ rpc' = [rpc EXCEPT ![c].pc = "cleanup", ![c].result = client.ch[rpc[c].id]]
    /\ client' = [client EXCEPT !.ch[rpc[c].id] = NoResponse]
    /\ UNCHANGED <<reader, stdin, time, nonClientVars>>

\* case err := <-c.errChan: the error is taken from the channel.
CallServerError(c) ==
    /\ rpc[c].pc = "select"
    /\ client.errChan # NoErr
    /\ rpc' = [rpc EXCEPT ![c].pc = "cleanup", ![c].result = Outcome("LSP server error")]
    /\ client' = [client EXCEPT !.errChan = NoErr]
    /\ UNCHANGED <<reader, stdin, time, nonClientVars>>

\* case <-ctx.Done()
CallTimeout(c) ==
    /\ rpc[c].pc = "select"
    /\ CtxDone(rpc[c].ctx, rpc[c].cancelled, time)
    /\ rpc' = [rpc EXCEPT ![c].pc = "cleanup", ![c].result = Outcome("LSP call timeout")]
    /\ UNCHANGED <<client, reader, stdin, time, nonClientVars>>

\* The deferred function: c.mu.Lock(); delete(c.pending, id)
CallDelete(c) ==
    /\ rpc[c].pc = "cleanup"
    /\ client.mu = Unlocked
    /\ client' = [client EXCEPT !.mu = c, !.pending = @ \ {rpc[c].id}]
    /\ rpc' = [rpc EXCEPT ![c].pc = "deleted"]
    /\ UNCHANGED <<reader, stdin, time, nonClientVars>>

\* The deferred function: c.mu.Unlock(), and CallWithContext returns.
CallReturn(c) ==
    /\ rpc[c].pc = "deleted"
    /\ client' = [client EXCEPT !.mu = Unlocked]
    /\ rpc' = [rpc EXCEPT ![c].pc = "returned", ![c].ended = time]
    /\ UNCHANGED <<reader, stdin, time, nonClientVars>>

\* The caller's context is cancelled while the call is in flight.
Cancel(c) ==
    /\ rpc[c].pc \in InFlight \ {"cleanup", "deleted"}
    /\ rpc[c].method # DirectMethod
    /\ ~rpc[c].cancelled
    /\ rpc' = [rpc EXCEPT ![c].cancelled = TRUE, ![c].cancelAt = time]
    /\ UNCHANGED <<client, reader, stdin, time, nonClientVars>>

\* Notify: WriteMessage(c.stdin, notif), header then body.
NotifyHeader(n) ==
    /\ rpc[n].pc = "idle"
    /\ stdin' = stdin \cup {n}
    /\ rpc' = [rpc EXCEPT ![n].pc = "writing", ![n].method = "textDocument/didOpen"]
    /\ UNCHANGED <<client, reader, time, nonClientVars>>

NotifyBody(n) ==
    /\ rpc[n].pc = "writing"
    /\ stdin' = stdin \ {n}
    /\ rpc' = [rpc EXCEPT ![n] = CallIdle]
    /\ UNCHANGED <<client, reader, time, nonClientVars>>

\* readLoop: ReadMessage returns a frame that decodes as a response with a
\* number as id; the id is converted and looked up under the lock.
ReaderLookup(h, rpcError) ==
    /\ reader.pc = "read"
    /\ reader.frames < MaxFrames
    /\ client.mu = Unlocked
    /\ client' = [client EXCEPT !.mu = "reader"]
    /\ reader' = [reader EXCEPT
                    !.pc = IF IntOfFloat(h) \in client.pending THEN "found" ELSE "missed",
                    !.id = IntOfFloat(h),
                    !.resp = ResponseOrError(rpcError, h),
                    !.frames = @ + 1]
    /\ UNCHANGED <<rpc, stdin, time, nonClientVars>>

\* readLoop: c.mu.Unlock() after the lookup.
ReaderUnlock ==
    /\ reader.pc \in {"found", "missed"}
    /\ client' = [client EXCEPT !.mu = Unlocked]
    /\ reader' = IF reader.pc = "found" THEN [reader EXCEPT !.pc = "deliver"]
                 ELSE [reader EXCEPT !.pc = "read", !.id = 0, !.resp = NoResponse]
    /\ UNCHANGED <<rpc, stdin, time, nonClientVars>>

\* readLoop: ch <- responseOrError{...}; the send waits while the channel
\* holds a response.
ReaderDeliver ==
    /\ reader.pc = "deliver"
    /\ client.ch[reader.id] = NoResponse
    /\ client' = [client EXCEPT !.ch[reader.id] = reader.resp]
    /\ reader' = [reader EXCEPT !.pc = "read", !.id = 0, !.resp = NoResponse]
    /\ UNCHANGED <<rpc, stdin, time, nonClientVars>>

\* readLoop: a notification, a frame whose id is a string or a frame that
\* does not decode is ignored.
ReaderIgnore ==
    /\ reader.pc = "read"
    /\ reader.frames < MaxFrames
    /\ reader' = [reader EXCEPT !.frames = @ + 1]
    /\ UNCHANGED <<client, rpc, stdin, time, nonClientVars>>

\* readLoop: ReadMessage returns an error; the loop publishes it unless it is
\* io.EOF or names a closed pipe, and returns. stopped marks the calls in
\* flight at that moment.
ReaderStop(err) ==
    /\ reader.pc = "read"
    /\ reader' = [reader EXCEPT !.pc = "exited", !.why = err,
                                !.published = IsPublished(err) /\ client.errChan = NoErr]
    /\ client' = IF IsPublished(err)
                 THEN [client EXCEPT !.errChan = Publish(client.errChan, err)]
                 ELSE client
    /\ rpc' = [w \in Writers |->
                 IF w \in Callers /\ rpc[w].pc \in InFlight
                 THEN [rpc[w] EXCEPT !.stopped = err] ELSE rpc[w]]
    /\ UNCHANGED <<stdin, time, nonClientVars>>

\* A case of the select of the call c is ready.
SelectReady(c) ==
    \/ client.ch[rpc[c].id] # NoResponse
    \/ client.errChan # NoErr
    \/ CtxDone(rpc[c].ctx, rpc[c].cancelled, time)

\* Ten seconds pass: every call is between two calls, or waits in its select
\* with no case ready, or is in WriteMessage, whose write to the pipe of the
\* server takes no context and waits for as long as the pipe is full, the
\* server reading nothing.
Pass ==
    /\ time < MaxNow
    /\ \A w \in Writers :
          \/ rpc[w].pc \in {"idle", "returned"}
          \/ rpc[w].pc = "select" /\ ~SelectReady(w)
          \/ rpc[w].pc \in {"write", "writing"}
    /\ reader.pc \in {"read", "deliver", "exited"}
    /\ time' = time + 1
    /\ UNCHANGED <<client, reader, rpc, stdin, nonClientVars>>

InitClient ==
    /\ nodes = {}
    /\ edges = {}
    /\ lastOp = Op("New", NoFile, {}, TRUE, <<>>, {})
    /\ impact = ImpactIdle
    /\ storeCall = StoreCallsIdle
    /\ LifeUnused
    /\ WatchIdle
    /\ ClientUnused
    /\ svc = NewService
    /\ pool = PoolUnused

\* In SpecClient the calls are requests made with a context that has no
\* deadline, and no time passes: a context is done when it is cancelled.
NextClient ==
    \/ \E c \in Callers : CallBegin(c, "textDocument/references", Background)
    \/ \E c \in Callers : CallUnlock(c)
    \/ \E c \in Callers : WriteHeader(c)
    \/ \E c \in Callers, ok \in BOOLEAN : WriteBody(c, ok)
    \/ \E c \in Callers : CallReceive(c)
    \/ \E c \in Callers : CallServerError(c)
    \/ \E c \in Callers : CallTimeout(c)
    \/ \E c \in Callers : CallDelete(c)
    \/ \E c \in Callers : CallReturn(c)
    \/ \E c \in Callers : Cancel(c)
    \/ \E n \in Notifiers : NotifyHeader(n)
    \/ \E n \in Notifiers : NotifyBody(n)
    \/ \E h \in FrameIDs, e \in BOOLEAN : ReaderLookup(h, e)
    \/ ReaderUnlock
    \/ ReaderDeliver
    \/ ReaderIgnore
    \/ \E err \in ReadErrors : ReaderStop(err)

SpecClient == InitClient /\ [][NextClient]_vars

\* Types of the client's state.
ClientTypeOK ==
    /\ client.seq \in 0..MaxSeq
    /\ client.pending \subseteq 1..MaxSeq
    /\ time \in 0..MaxNow

\* The select of the call c has its response or a published error to take.
CanComplete(c) == client.ch[rpc[c].id] # NoResponse \/ client.errChan # NoErr

\* C24: once the reader has stopped on a read error, every call made on the
\* client afterwards, and every call pending at that moment, fails with the
\* published error rather than waiting for its own timeout: such a call that
\* waits in its select has its response or the published error to take.
ReadErrorFailsEveryCall ==
    \A c \in Callers :
        (rpc[c].stopped = "invalid header" /\ rpc[c].pc = "select") => CanComplete(c)

\* C25: when the reader stops on the end of the server's output it publishes
\* the error as for any other read error before it exits, and the calls
\* pending at that moment or made later have it to take.
EOFIsPublished ==
    /\ (reader.pc = "exited" /\ reader.why = "EOF") => reader.published
    /\ \A c \in Callers :
          (rpc[c].stopped = "EOF" /\ rpc[c].pc = "select") => CanComplete(c)

\* C26: no two writes of a frame to the client's stdin overlap, and a frame
\* is written while its writer holds the client's mutex.
WritesDoNotOverlap ==
    /\ Cardinality(stdin) <= 1
    /\ \A w \in stdin : client.mu = w

\* C27: the request ids of the calls are pairwise distinct and each new id
\* is greater than every id issued before; a call that completed with a
\* result or an RPC error completed from a frame whose id is its request id;
\* and the entry of a call that has returned is no longer in the pending map.
RequestIDsMatch ==
    /\ [](\A c, d \in Callers :
            (c # d /\ rpc[c].id # 0 /\ rpc[d].id # 0) => rpc[c].id # rpc[d].id)
    /\ [][\A c \in Callers :
            (rpc'[c].id # rpc[c].id /\ rpc'[c].id # 0) =>
                (rpc'[c].id > client.seq /\ rpc'[c].id = client'.seq)]_vars
    /\ [](\A c \in Callers :
            rpc[c].result.frame # 0 => rpc[c].result.frame = FrameIDOf(rpc[c].id))
    /\ [](\A c \in Callers :
            rpc[c].pc = "returned" => rpc[c].id \notin client.pending)

----------------------------------------------------------------------------
(* SpecTimeout: the calls of one goroutine on the client, with time: every *)
(* method, contexts with and without deadline, cancellation, and a server  *)
(* that answers the call made last, with a result or an error, or not, or  *)
(* whose output ends.                                                      *)

TimedCallers == {"w1"}

NextTimeout ==
    \/ \E c \in TimedCallers, m \in Methods, ctx \in ParentContexts : CallBegin(c, m, ctx)
    \/ \E c \in TimedCallers : ClientCall(c)
    \/ \E c \in TimedCallers : CallUnlock(c)
    \/ \E c \in TimedCallers : WriteHeader(c)
    \/ \E c \in TimedCallers, ok \in BOOLEAN : WriteBody(c, ok)
    \/ \E c \in TimedCallers : CallReceive(c)
    \/ \E c \in TimedCallers : CallServerError(c)
    \/ \E c \in TimedCallers : CallTimeout(c)
    \/ \E c \in TimedCallers : CallDelete(c)
    \/ \E c \in TimedCallers : CallReturn(c)
    \/ \E c \in TimedCallers : Cancel(c)
    \/ \E c \in TimedCallers, e \in BOOLEAN : ReaderLookup(FrameIDOf(rpc[c].id), e)
    \/ ReaderUnlock
    \/ ReaderDeliver
    \/ \E err \in ReadErrors : ReaderStop(err)
    \/ Pass

SpecTimeout == InitClient /\ [][NextTimeout]_vars

\* The time the client allows a method: 30 seconds for initialize, 10
\* seconds for a request.
Allowed(method) == IF method = "initialize" THEN 3 ELSE 1

\* C28: a request made with a context without deadline is in flight for at
\* most 10 seconds and has returned within 10 seconds of its start, and
\* initialize within 30 seconds whatever its context; a call whose context
\* is cancelled returns at once; and a call that returned the timeout error
\* returned no frame of the server, its error differing from an RPC error.
CallReturnsInTime ==
    \A c \in TimedCallers :
        /\ (rpc[c].pc \in InFlight /\ (rpc[c].own \/ rpc[c].method = "initialize")) =>
               time <= rpc[c].started + Allowed(rpc[c].method)
        /\ (rpc[c].pc = "returned" /\ (rpc[c].own \/ rpc[c].method = "initialize")) =>
               rpc[c].ended <= rpc[c].started + Allowed(rpc[c].method)
        /\ (rpc[c].pc \in InFlight /\ rpc[c].cancelled) => time = rpc[c].cancelAt
        /\ (rpc[c].pc = "returned" /\ rpc[c].cancelled) => rpc[c].ended = rpc[c].cancelAt
        /\ rpc[c].result.err = "LSP call timeout" =>
               (rpc[c].result.frame = 0 /\ rpc[c].result # ResponseOrError(TRUE, 0))

----------------------------------------------------------------------------
(* SpecService: calls of Service.StartClient from several goroutines, for  *)
(* the same and for different languages, and processes that exit.          *)

nonServiceVars ==
    <<storeVars, impact, storeCall, lifeVars, watcherVars, run, done, lastWriter, latest, enr,
      client, reader, rpc, stdin, time, pool>>

\* StartClient returns err from the service state v: the deferred
\* s.mu.Unlock() runs.
StartReturned(v, s, err) ==
    [v EXCEPT !.mu = Unlocked, !.st[s].pc = "returned", !.st[s].err = err]

\* s.mu.Lock()
StartLock(s, lang) ==
    /\ svc.st[s].pc \in {"idle", "returned"}
    /\ svc.mu = Unlocked
    /\ svc' = [svc EXCEPT !.mu = s,
                          !.st[s] = [StartIdle EXCEPT !.pc = "check", !.lang = lang]]
    /\ UNCHANGED nonServiceVars

\* The test for a client that already runs: return nil, or go on to spawn.
StartCheck(s) ==
    /\ svc.st[s].pc = "check"
    /\ LET l == svc.st[s].lang
           seen == [svc EXCEPT !.st[s].found = svc.clients[l].running]
       IN svc' = IF AlreadyRunning(svc.clients[l])
                 THEN StartReturned(seen, s, NoErr)
                 ELSE [seen EXCEPT !.st[s].pc = "spawn"]
    /\ UNCHANGED nonServiceVars

\* exec.CommandContext(ctx, ...) and cmd.Start(): on success the client is
\* made and registered in s.clients and its reader started; on failure, as
\* when ctx is done already, StartClient returns the error.
StartSpawn(s, ok) ==
    /\ svc.st[s].pc = "spawn"
    /\ svc.spawned[svc.st[s].lang] < MaxSpawn
    /\ LET l == svc.st[s].lang
       IN svc' = IF ok /\ s \notin svc.ctxDone
                 THEN [svc EXCEPT !.clients[l] = [registered |-> TRUE, process |-> TRUE,
                                                  running |-> TRUE, initialized |-> FALSE,
                                                  ctx |-> s, endedBy |-> StillRuns],
                                  !.spawned[l] = @ + 1,
                                  !.st[s].spawned = TRUE,
                                  !.st[s].pc = "initialize"]
                 ELSE StartReturned(svc, s, "failed to start")
    /\ UNCHANGED nonServiceVars

\* c.CallWithContext(initCtx, "initialize", ...): on success the initialized
\* notification is sent and initTime set; on an error or a timeout
\* StartClient returns 'initialize failed'. The client stays in s.clients.
StartInitialize(s, ok) ==
    /\ svc.st[s].pc = "initialize"
    /\ LET l == svc.st[s].lang
       IN svc' = IF ok
                 THEN StartReturned([svc EXCEPT !.clients[l].initialized = TRUE,
                                                !.st[s].initialized = TRUE], s, NoErr)
                 ELSE StartReturned(svc, s, "initialize failed")
    /\ UNCHANGED nonServiceVars

\* The child process of a language exits; cmd.Process stays set.
ProcessExit(l) ==
    /\ svc.clients[l].running
    /\ svc' = [svc EXCEPT !.clients[l].running = FALSE, !.clients[l].endedBy = "exit"]
    /\ UNCHANGED nonServiceVars

InitService ==
    /\ nodes = {}
    /\ edges = {}
    /\ lastOp = Op("New", NoFile, {}, TRUE, <<>>, {})
    /\ impact = ImpactIdle
    /\ storeCall = StoreCallsIdle
    /\ LifeUnused
    /\ WatchIdle
    /\ ClientUnused
    /\ svc = NewService
    /\ pool = PoolUnused

NextService ==
    \/ \E s \in StartCallers, l \in StartLangs : StartLock(s, l)
    \/ \E s \in StartCallers : StartCheck(s)
    \/ \E s \in StartCallers, ok \in BOOLEAN : StartSpawn(s, ok)
    \/ \E s \in StartCallers, ok \in BOOLEAN : StartInitialize(s, ok)
    \/ \E l \in StartLangs : ProcessExit(l)

SpecService == InitService /\ [][NextService]_vars

\* C29: for any calls of StartClient for a language, in any interleaving, at
\* most one child process is spawned and one client registered for it, and a
\* call that finds the language's process running returns success without
\* spawning and without initializing.
StartsOneProcessPerLanguage ==
    /\ \A l \in StartLangs : svc.spawned[l] <= 1
    /\ \A s \in StartCallers :
          (svc.st[s].pc = "returned" /\ svc.st[s].found) =>
              /\ svc.st[s].err = NoErr
              /\ ~svc.st[s].spawned
              /\ ~svc.st[s].initialized

\* Two calls for the same language have returned success: one spawned and
\* initialized the server, the other found it running.
SecondStartFoundClient ==
    \E s, t \in StartCallers :
        /\ s # t
        /\ svc.st[s].pc = "returned" /\ svc.st[t].pc = "returned"
        /\ svc.st[s].lang = "go" /\ svc.st[t].lang = "go"
        /\ svc.st[s].spawned /\ svc.st[s].initialized
        /\ svc.st[t].found /\ svc.st[t].err = NoErr
        /\ svc.spawned["go"] = 1

----------------------------------------------------------------------------
(* SpecProcess: the life of the child processes. StartClient makes the     *)
(* command with exec.CommandContext(ctx, ...), ctx being the context of    *)
(* the Enrich call that starts the server; the contexts become done and    *)
(* the service is shut down.                                               *)

\* exec.CommandContext: the process is killed when the context the command
\* was made with becomes done before the process has ended.
KilledByContext(c, s) == c.process /\ c.running /\ c.ctx = s

\* The context of caller s is cancelled, or the request it belongs to
\* completes.
ContextDone(s) ==
    /\ s \notin svc.ctxDone
    /\ svc.st[s].pc \in {"idle", "returned"}
    /\ svc' = [svc EXCEPT
                 !.ctxDone = @ \cup {s},
                 !.clients = [l \in StartLangs |->
                                IF KilledByContext(svc.clients[l], s)
                                THEN [svc.clients[l] EXCEPT !.running = FALSE,
                                                            !.endedBy = "context"]
                                ELSE svc.clients[l]]]
    /\ UNCHANGED nonServiceVars

\* Service.Shutdown: under s.mu, kill the process of every client.
Shutdown ==
    /\ svc.mu = Unlocked
    /\ \E l \in StartLangs : svc.clients[l].registered
    /\ svc' = [svc EXCEPT
                 !.clients = [l \in StartLangs |->
                                IF svc.clients[l].registered /\ svc.clients[l].process
                                      /\ svc.clients[l].running
                                THEN [svc.clients[l] EXCEPT !.running = FALSE,
                                                            !.endedBy = "shutdown"]
                                ELSE svc.clients[l]]]
    /\ UNCHANGED nonServiceVars

NextProcess ==
    \/ NextService
    \/ \E s \in StartCallers : ContextDone(s)
    \/ Shutdown

SpecProcess == InitService /\ [][NextProcess]_vars

\* C31: cancelling or completing the context of a call, the context given
\* to the call that first spawned a server included, does not end the
\* language server's process: a process that has ended did so by its own
\* exit or by the shutdown of the service.
ProcessOutlivesCallContext ==
    \A l \in StartLangs :
        (svc.clients[l].process /\ ~svc.clients[l].running) =>
            svc.clients[l].endedBy \in {"exit", "shutdown"}

----------------------------------------------------------------------------
(* SpecPool: the worker pool of one Enrich run, from the making of         *)
(* openedDocs to the return: the feeder, the workers, the goroutine that   *)
(* waits for them, the collector and the deferred closing of documents.    *)

nonPoolVars ==
    <<storeVars, impact, storeCall, lifeVars, watcherVars, run, done, lastWriter, latest, enr,
      client, reader, rpc, stdin, time, svc>>

\* The fields of graph.Node that Enrich reads.
PoolNode(path, name, kind) ==
    [id |-> GenerateNodeID(path, name), name |-> name, kind |-> kind, file_path |-> path]

\* A function and an interface of one file, a node without name, and a node
\* of another file that is no definition.
PoolNodeList ==
    <<PoolNode("/w/a.go", "F", "function_declaration"),
      PoolNode("/w/a.go", "I", "interface_declaration"),
      PoolNode("/w/a.go", "", "function_declaration"),
      PoolNode("/w/b.py", "V", "identifier")>>

PoolNodes == {PoolNodeList[k] : k \in 1..Len(PoolNodeList)}

PoolPos(n) == CHOOSE k \in 1..Len(PoolNodeList) : PoolNodeList[k] = n

\* The batches: lists of distinct nodes, in the order of the scan.
PoolBatches ==
    {b \in SeqsUpTo(PoolNodes, MaxPool) :
        \A i, j \in 1..Len(b) : i < j => PoolPos(b[i]) < PoolPos(b[j])}

\* What resolver.FindNode returns for a location: an error, no node, or the
\* node that contains it.
LookupFailed == [err |-> "lookup failed", found |-> FALSE, id |-> <<>>]

NotFound == [err |-> NoErr, found |-> FALSE, id |-> <<>>]

Found(id) == [err |-> NoErr, found |-> TRUE, id |-> id]

\* The id of a node outside the batch.
OtherID == GenerateNodeID("/w/c.go", "H")

\* What the resolver finds for the locations returned for node n: n itself
\* or the other node.
FindNodeOutcomes(n) == {LookupFailed, NotFound, Found(n.id), Found(OtherID)}

\* What GetReferences and GetImplementation return: an error, or locations,
\* each given here with what the resolver finds for it.
CallFailed == [err |-> "failed", locs |-> <<>>]

LspResponses ==
    [n \in PoolNodes |->
        {CallFailed}
            \cup {[err |-> NoErr, locs |-> q] : q \in SeqsUpTo(FindNodeOutcomes(n), MaxLocs)}]

\* A test that lets every outcome of the lookup through.
IsSourceAny(o, n) == TRUE

\* sourceNode != nil && sourceNode.ID != n.ID, after a lookup without error.
IsSource(o, n) == o.err = NoErr /\ o.found /\ o.id # n.id

\* findReferenceEdges: no edge when the call fails; else one edge for each
\* location that resolves to a node other than n.
ReferenceEdgeList(n, resp) ==
    IF resp.err # NoErr THEN <<>>
    ELSE LET kept == SelectSeq(resp.locs, LAMBDA o : IsSource(o, n))
         IN [i \in 1..Len(kept) |-> Edge(kept[i].id, n.id, "references")]

\* findImplementationEdges: the same with relation implements.
ImplementationEdgeList(n, resp) ==
    IF resp.err # NoErr THEN <<>>
    ELSE LET kept == SelectSeq(resp.locs, LAMBDA o : IsSource(o, n))
         IN [i \in 1..Len(kept) |-> Edge(kept[i].id, n.id, "implements")]

\* Channels without buffer space.
ChanCapNone(b) == 0

\* make(chan ..., len(nodes)): the capacity of nodeChan and of edgeChan.
ChanCap(b) == Len(b)

\* A lock that is never held.
DocsMuFreeAlways(mu) == TRUE

\* docsMu.Lock() goes through when no worker holds docsMu.
DocsMuFree(mu) == mu = NoWorker

\* The node the worker holds, and the URI of its file.
NodeOf(p, w) == p.batch[p.wk[w].n]

URIOf(n) == PathToURI(n.file_path)

\* The worker goes on to the queries, or to the next node when the node has
\* no name or is no definition.
AfterOpen(n) == IF n.name = "" \/ ~IsDefinitionKind(n.kind) THEN "range" ELSE "query"

\* Node i of the run is yet to be queried: it waits to be taken, or the
\* worker that took it is on its way to the query.
QueryAhead(p, i) ==
    /\ p.batch[i].name # ""
    /\ IsDefinitionKind(p.batch[i].kind)
    /\ \/ p.taken[i] = 0
       \/ \E w \in PoolWorkers : p.wk[w].n = i /\ p.wk[w].pc \in {"lock", "open", "query", "implement", "send"}

\* The run has the document open and still has queries to issue on it.
StillQueries(p, uri) ==
    /\ uri \in p.openedDocs
    /\ \E i \in 1..Len(p.batch) : URIOf(p.batch[i]) = uri /\ QueryAhead(p, i)

\* The edge lists of the entries, one after the other.
RECURSIVE FlattenLists(_)
FlattenLists(q) == IF q = <<>> THEN <<>> ELSE Head(q).list \o FlattenLists(Tail(q))

\* for _, n := range nodes { nodeChan <- n }
FeedNode(r) ==
    LET p == pool.r[r]
    IN /\ p.pc = "feed"
       /\ p.fed < Len(p.batch)
       /\ Len(p.nodeChan) < ChanCap(p.batch)
       /\ pool' = [pool EXCEPT !.r[r].nodeChan = Append(@, p.fed + 1),
                               !.r[r].fed = @ + 1]
       /\ UNCHANGED nonPoolVars

\* close(nodeChan), and the goroutine that waits for the workers is made.
CloseNodeChan(r) ==
    LET p == pool.r[r]
    IN /\ p.pc = "feed"
       /\ p.fed = Len(p.batch)
       /\ pool' = [pool EXCEPT !.r[r].nodeClosed = TRUE, !.r[r].pc = "collect"]
       /\ UNCHANGED nonPoolVars

\* for n := range nodeChan: a worker takes a node; with no client for the
\* node's language it goes on to the next.
WorkerTake(r, w) ==
    LET p == pool.r[r]
    IN /\ p.pc \in {"feed", "collect"}
       /\ p.wk[w].pc = "range"
       /\ p.nodeChan # <<>>
       /\ LET i == Head(p.nodeChan)
              hasClient == GetLang(p.batch[i].file_path) \in pool.clients
          IN pool' = [pool EXCEPT
                        !.r[r].nodeChan = Tail(@),
                        !.r[r].taken[i] = @ + 1,
                        !.r[r].wk[w] = IF hasClient
                                       THEN [pc |-> "lock", n |-> i, isOpen |-> FALSE, nodeEdges |-> <<>>]
                                       ELSE WorkerIdle]
       /\ UNCHANGED nonPoolVars

\* The range over the closed and empty nodeChan ends: wg.Done().
WorkerExit(r, w) ==
    LET p == pool.r[r]
    IN /\ p.pc \in {"feed", "collect"}
       /\ p.wk[w].pc = "range"
       /\ p.nodeChan = <<>>
       /\ p.nodeClosed
       /\ pool' = [pool EXCEPT !.r[r].wk[w].pc = "done"]
       /\ UNCHANGED nonPoolVars

\* docsMu.Lock(); isOpen := openedDocs[uri]
WorkerLock(r, w) ==
    LET p == pool.r[r]
    IN /\ p.wk[w].pc = "lock"
       /\ DocsMuFree(p.docsMu)
       /\ pool' = [pool EXCEPT
                     !.r[r].docsMu = w,
                     !.r[r].wk[w].pc = "open",
                     !.r[r].wk[w].isOpen = URIOf(NodeOf(p, w)) \in p.openedDocs]
       /\ UNCHANGED nonPoolVars

\* With the document not open in this run: os.ReadFile and client.DidOpen;
\* when one of them fails the worker unlocks and goes on to the next node,
\* else didOpen is sent and the URI recorded. Then docsMu.Unlock() and the
\* test for a definition with a name.
WorkerOpen(r, w, ok) ==
    LET p == pool.r[r]
        n == NodeOf(p, w)
        uri == URIOf(n)
    IN /\ p.wk[w].pc = "open"
       /\ pool' =
            IF p.wk[w].isOpen
            THEN [pool EXCEPT !.r[r].docsMu = NoWorker,
                              !.r[r].sawOpen = @ \cup {uri},
                              !.r[r].wk[w] = [pc |-> AfterOpen(n),
                                              n |-> IF AfterOpen(n) = "range" THEN 0 ELSE @.n,
                                              isOpen |-> FALSE, nodeEdges |-> <<>>]]
            ELSE IF ~ok
            THEN [pool EXCEPT !.r[r].docsMu = NoWorker, !.r[r].wk[w] = WorkerIdle]
            ELSE [pool EXCEPT !.server = @ \cup {uri},
                              !.reopened = @ \cup (IF uri \in pool.server THEN {uri} ELSE {}),
                              !.r[r].opens[uri] = @ + 1,
                              !.r[r].openedDocs = @ \cup {uri},
                              !.r[r].docsMu = NoWorker,
                              !.r[r].wk[w] = [pc |-> AfterOpen(n),
                                              n |-> IF AfterOpen(n) = "range" THEN 0 ELSE @.n,
                                              isOpen |-> FALSE, nodeEdges |-> <<>>]]
       /\ UNCHANGED nonPoolVars

\* refEdges := s.findReferenceEdges(...), for any response of the language
\* server; an interface goes on to its implementations.
WorkerQuery(r, w) ==
    LET p == pool.r[r]
        n == NodeOf(p, w)
    IN /\ p.wk[w].pc = "query"
       /\ \E refs \in LspResponses[n] :
             pool' = [pool EXCEPT
                        !.r[r].wk[w].nodeEdges = ReferenceEdgeList(n, refs),
                        !.r[r].wk[w].pc = IF IsInterfaceKind(n.kind)
                                          THEN "implement" ELSE "send"]
       /\ UNCHANGED nonPoolVars

\* implEdges := s.findImplementationEdges(...), appended to nodeEdges.
WorkerImplement(r, w) ==
    LET p == pool.r[r]
        n == NodeOf(p, w)
    IN /\ p.wk[w].pc = "implement"
       /\ \E impls \in LspResponses[n] :
             pool' = [pool EXCEPT
                        !.r[r].wk[w].nodeEdges = @ \o ImplementationEdgeList(n, impls),
                        !.r[r].wk[w].pc = "send"]
       /\ UNCHANGED nonPoolVars

\* edgeChan <- nodeEdges
WorkerSend(r, w) ==
    LET p == pool.r[r]
    IN /\ p.wk[w].pc = "send"
       /\ Len(p.edgeChan) < ChanCap(p.batch)
       /\ pool' = [pool EXCEPT
                     !.r[r].edgeChan = Append(@, p.wk[w].nodeEdges),
                     !.r[r].produced = Append(@, [node |-> p.wk[w].n,
                                                  list |-> p.wk[w].nodeEdges]),
                     !.r[r].wk[w] = WorkerIdle]
       /\ UNCHANGED nonPoolVars

\* go func() { wg.Wait(); close(edgeChan) }()
WaitGroupDone(r) ==
    LET p == pool.r[r]
    IN /\ p.pc = "collect"
       /\ ~p.edgeClosed
       /\ \A w \in PoolWorkers : p.wk[w].pc = "done"
       /\ pool' = [pool EXCEPT !.r[r].edgeClosed = TRUE]
       /\ UNCHANGED nonPoolVars

\* for eList := range edgeChan { edges = append(edges, eList...) }
CollectEdges(r) ==
    LET p == pool.r[r]
    IN /\ p.pc = "collect"
       /\ p.edgeChan # <<>>
       /\ pool' = [pool EXCEPT !.r[r].edges = @ \o Head(p.edgeChan),
                               !.r[r].edgeChan = Tail(@)]
       /\ UNCHANGED nonPoolVars

\* The range over the closed and empty edgeChan ends; Enrich returns and its
\* deferred function starts.
CollectEnd(r) ==
    LET p == pool.r[r]
    IN /\ p.pc = "collect"
       /\ p.edgeChan = <<>>
       /\ p.edgeClosed
       /\ pool' = [pool EXCEPT !.r[r].pc = "close"]
       /\ UNCHANGED nonPoolVars

\* The deferred function: c.DidClose(ctx, uri) for a URI of openedDocs, in
\* the order the map gives them.
CloseDoc(r, uri) ==
    LET p == pool.r[r]
    IN /\ p.pc = "close"
       /\ uri \in p.openedDocs
       /\ p.closes[uri] = 0
       /\ GetLang(URIToPath(uri)) \in pool.clients
       /\ pool' = [pool EXCEPT
                     !.server = @ \ {uri},
                     !.closedInUse =
                        @ \cup (IF \E x \in PoolRuns \ {r} : StillQueries(pool.r[x], uri)
                                THEN {uri} ELSE {}),
                     !.r[r].closes[uri] = @ + 1]
       /\ UNCHANGED nonPoolVars

\* The deferred function has gone through openedDocs: Enrich has returned.
EnrichReturn(r) ==
    LET p == pool.r[r]
    IN /\ p.pc = "close"
       /\ \A uri \in p.openedDocs : p.closes[uri] > 0
       /\ pool' = [pool EXCEPT !.r[r].pc = "returned"]
       /\ UNCHANGED nonPoolVars

\* An Enrich run about to feed its workers.
StartPool(b) ==
    [PoolIdle EXCEPT !.pc = "feed", !.batch = b, !.taken = [i \in 1..Len(b) |-> 0]]

\* The sets of languages with a client when the workers start: the go
\* server, with or without the python server.
PoolClients == {{"go"}, {"go", "python"}}

InitPool ==
    /\ nodes = {}
    /\ edges = {}
    /\ lastOp = Op("New", NoFile, {}, TRUE, <<>>, {})
    /\ impact = ImpactIdle
    /\ storeCall = StoreCallsIdle
    /\ LifeUnused
    /\ WatchIdle
    /\ ClientUnused
    /\ svc = NewService
    /\ \E c \in PoolClients, b \in PoolBatches :
          pool = [PoolUnused EXCEPT !.clients = c, !.r["r1"] = StartPool(b)]

NextPool ==
    \/ \E r \in PoolRuns : FeedNode(r)
    \/ \E r \in PoolRuns : CloseNodeChan(r)
    \/ \E r \in PoolRuns, w \in PoolWorkers : WorkerTake(r, w)
    \/ \E r \in PoolRuns, w \in PoolWorkers : WorkerExit(r, w)
    \/ \E r \in PoolRuns, w \in PoolWorkers : WorkerLock(r, w)
    \/ \E r \in PoolRuns, w \in PoolWorkers, ok \in BOOLEAN : WorkerOpen(r, w, ok)
    \/ \E r \in PoolRuns, w \in PoolWorkers : WorkerQuery(r, w)
    \/ \E r \in PoolRuns, w \in PoolWorkers : WorkerImplement(r, w)
    \/ \E r \in PoolRuns, w \in PoolWorkers : WorkerSend(r, w)
    \/ \E r \in PoolRuns : WaitGroupDone(r)
    \/ \E r \in PoolRuns : CollectEdges(r)
    \/ \E r \in PoolRuns : CollectEnd(r)
    \/ \E r \in PoolRuns, uri \in PoolURIs : CloseDoc(r, uri)
    \/ \E r \in PoolRuns : EnrichReturn(r)

SpecPool == InitPool /\ [][NextPool]_vars

\* C33: within one Enrich run at most one didOpen is sent for a URI, however
\* many workers process nodes of the file at the same time, and when the run
\* has returned every URI it opened has been sent a didClose.
OneOpenOneClosePerURI ==
    \A r \in PoolRuns, uri \in PoolURIs :
        /\ pool.r[r].opens[uri] <= 1
        /\ pool.r[r].pc = "returned" =>
              /\ pool.r[r].closes[uri] = pool.r[r].opens[uri]
              /\ uri \in pool.r[r].openedDocs <=> pool.r[r].opens[uri] = 1

\* A run has returned in which a worker found a.go open already and two
\* nodes of a.go were queried: the document was opened once and closed once.
TwoWorkersOneOpen ==
    LET p == pool.r["r1"]
        uri == PathToURI("/w/a.go")
    IN /\ p.pc = "returned"
       /\ uri \in p.sawOpen
       /\ p.opens[uri] = 1
       /\ p.closes[uri] = 1
       /\ \E k, m \in 1..Len(p.produced) :
             /\ p.produced[k].node # p.produced[m].node
             /\ URIOf(p.batch[p.produced[k].node]) = uri
             /\ URIOf(p.batch[p.produced[m].node]) = uri

\* C35: every edge Enrich returns has as target the id of a node of the
\* batch that has a name and a definition kind, as source the id of a node
\* the resolver returned, different from the target, and the relation
\* references or implements.
EdgesOfQueriedDefinitions ==
    \A r \in PoolRuns :
        \A k \in 1..Len(pool.r[r].edges) :
            LET e == pool.r[r].edges[k]
            IN /\ e.relation \in {"references", "implements"}
               /\ e.source_id # e.target_id
               /\ \E n \in PoolNodes : e.source_id \in {n.id, OtherID}
               /\ \E i \in 1..Len(pool.r[r].batch) :
                     /\ pool.r[r].batch[i].id = e.target_id
                     /\ pool.r[r].batch[i].name # ""
                     /\ pool.r[r].batch[i].kind \in DefinitionKinds

\* Enrich has returned a references edge and an implements edge for a batch
\* that also held a node without name and a node that is no definition.
ReturnedBothRelations ==
    LET p == pool.r["r1"]
    IN /\ p.pc = "returned"
       /\ \E k, m \in 1..Len(p.edges) :
             p.edges[k].relation = "references" /\ p.edges[m].relation = "implements"
       /\ \E i \in 1..Len(p.batch) : p.batch[i].name = "" /\ p.taken[i] = 1

\* Enrich has returned, every node was taken once and the edges returned
\* are the edge lists of the nodes one after the other, each node's once.
PoolResult(p) ==
    /\ \A i \in 1..Len(p.batch) : p.taken[i] = 1
    /\ \A k, m \in 1..Len(p.produced) : k # m => p.produced[k].node # p.produced[m].node
    /\ p.edges = FlattenLists(p.produced)

SpecPoolLive == InitPool /\ [][NextPool]_vars /\ WF_vars(NextPool)

\* C36: Enrich returns once its LSP calls return, for a batch of any size:
\* the feeder and the workers never block forever on the channels, no node
\* is taken twice, and the edge list returned is the concatenation of the
\* per-node edge lists, none lost and none twice.
EnrichAlwaysReturns ==
    /\ [](\A i \in 1..Len(pool.r["r1"].batch) : pool.r["r1"].taken[i] <= 1)
    /\ [](pool.r["r1"].pc = "returned" => PoolResult(pool.r["r1"]))
    /\ <>(pool.r["r1"].pc = "returned")

\* Enrich has returned for a batch of more nodes than workers, with the
\* edges of two nodes.
ReturnedLargeBatch ==
    LET p == pool.r["r1"]
    IN /\ p.pc = "returned"
       /\ Len(p.batch) > NumWorkers
       /\ Len(p.produced) >= 2
       /\ Len(p.edges) >= 2
       /\ PoolResult(p)

----------------------------------------------------------------------------
(* SpecTwoRuns: two Enrich runs at the same time on the clients of one     *)
(* service, a watcher reindex and an index tool call, each with its own    *)
(* openedDocs and its own workers.                                         *)

\* The batches of the two runs: no node or one.
SmallBatches == {<<>>} \cup {<<n>> : n \in PoolNodes}

InitTwoRuns ==
    /\ nodes = {}
    /\ edges = {}
    /\ lastOp = Op("New", NoFile, {}, TRUE, <<>>, {})
    /\ impact = ImpactIdle
    /\ storeCall = StoreCallsIdle
    /\ LifeUnused
    /\ WatchIdle
    /\ ClientUnused
    /\ svc = NewService
    /\ \E c \in PoolClients, b1, b2 \in SmallBatches :
          pool = [PoolUnused EXCEPT !.clients = c,
                                    !.r["r1"] = StartPool(b1),
                                    !.r["r2"] = StartPool(b2)]

SpecTwoRuns == InitTwoRuns /\ [][NextPool]_vars

\* C34: when two Enrich runs execute at the same time on one client, no
\* document is closed by one run while the other still has queries to issue
\* on it, and the server never gets a second didOpen for a URI it holds open.
RunsShareDocumentsSafely ==
    /\ pool.closedInUse = {}
    /\ pool.reopened = {}

----------------------------------------------------------------------------
(* SpecReindex: one call of Watcher.reindexFile for /w/a.go, on a store    *)
(* that an index run or an earlier reindex left, with nodes of a second    *)
(* file and an edge between the two.                                       *)

\* The contents of the file: those of SpecWatch and one with two definitions
\* of one name.
ReindexContents == Contents \cup {Content(<<Def("F", 1), Def("F", 2)>>)}

ReindexDisks == [SourcePaths -> ReindexContents \cup {NoContent}]

\* The nodes of /w/b.go, a file the watcher does not touch, and the edges
\* from them to F of /w/a.go under its two ids.
OtherFileRows == <<Node("/w/b.go", "G", 1)>>

ReindexEdges ==
    {Edge(GenerateNodeID("b.go", "G"), GenerateNodeID("a.go", "F"), "references"),
     Edge(GenerateNodeID("b.go", "G"), GenerateNodeID("/w/a.go", "F"), "references")}

\* The nodes the store holds after an index run, or a reindex of /w/a.go,
\* on the disk d.
StoredBy(prev, d) ==
    BulkUpsertNodeRows({}, OtherFileRows
                             \o (IF prev = "index" THEN ScanRows(d)
                                 ELSE IF d["/w/a.go"].exists
                                 THEN ScanFileRows("/w/a.go", d["/w/a.go"])
                                 ELSE <<>>))

InitReindex ==
    /\ impact = ImpactIdle
    /\ storeCall = StoreCallsIdle
    /\ LifeUnused
    /\ clock = 0
    /\ disk \in ReindexDisks
    /\ events = <<>>
    /\ pendingFiles = {}
    /\ deb = [DebIdle EXCEPT !.pc = "stat", !.ready = <<"/w/a.go">>]
    /\ burst = [f \in SourcePaths |-> NoBurst]
    /\ run = RunIdle
    /\ lastWriter = [f \in SourcePaths |-> NoWriter]
    /\ latest = {}
    /\ LspUnused
    /\ \E prev \in {"index", "watcher"}, d \in ReindexDisks :
          /\ nodes = StoredBy(prev, d)
          /\ edges = {e \in ReindexEdges : {e.source_id, e.target_id} \subseteq NodeIDs(nodes)}
          /\ \E c \in SUBSET {"go"} :
                /\ prev = "index" => c = {"go"}
                /\ enr = [EnrichIdle EXCEPT !.clients = c]
    /\ done = <<[result |-> TextResult("Indexed", <<Cardinality(nodes), Cardinality(edges)>>),
                 nodes |-> nodes, edges |-> edges, clients |-> enr.clients, faults |-> {}]>>
    /\ lastOp = Op("New", NoFile, {}, TRUE, <<>>, {})

NextReindex ==
    \/ ReindexStat
    \/ \E ok \in BOOLEAN : ReindexGone(ok)
    \/ \E ok \in BOOLEAN : ReindexScan(ok)
    \/ \E ok \in BOOLEAN : ReindexDelete(ok)
    \/ \E ok \in BOOLEAN : ReindexUpsert(ok)
    \/ \E ok \in BOOLEAN, registered \in SUBSET DetectRequiredLanguages(deb.scanned) :
          \E started \in SUBSET registered : ReindexEnrich(ok, started, registered)
    \/ \E n \in deb.todo, ok \in BOOLEAN : ReindexWorkerOpen(n, ok)
    \/ ReindexStoreEdges

SpecReindex == InitReindex /\ [][NextReindex]_vars

\* The reindex of f has returned without error.
Reindexed(f) == deb.pc = "idle" /\ deb.err = "nil" /\ lastWriter[f].by = "watcher"

\* C37: after a watcher reindex of an existing file f has completed without
\* error, the stored nodes with file_path f are exactly the nodes ScanFile
\* returned for f, and the nodes of every other file are those the store held
\* before.
ReindexStoresScannedNodes ==
    \A f \in SourcePaths :
        Reindexed(f) =>
            /\ NodesOf(f) = lastWriter[f].rows
            /\ {n \in nodes : n.file_path # f} = {n \in done[1].nodes : n.file_path # f}

\* C38: when ScanFile fails during a watcher reindex, reindexFile returns the
\* error before any store mutation: the nodes and the edges are those the
\* store held when the reindex began.
ScanErrorLeavesStore ==
    deb.err = "scan failed" => nodes = done[1].nodes /\ edges = done[1].edges

\* The scan of a file that exists has failed, with nodes of the file and an
\* edge to one of them in the store.
ScanFailedOnStoredFile ==
    /\ deb.pc = "idle"
    /\ deb.err = "scan failed"
    /\ disk["/w/a.go"].exists
    /\ NodesOf("/w/a.go") # {}
    /\ \E e \in edges : e.target_id \in NodeIDs(NodesOf("/w/a.go"))

----------------------------------------------------------------------------
(* SpecWatchLive: the watcher with a ticker that fires and writers that stop *)

\* The last instant of the clock: the writers stop before MaxTime and the
\* clock runs on until the deadline of an entry made at MaxTime has passed.
LastInstant == MaxTime + DebounceTime + 1

\* A process writes the file f, at an instant before MaxTime.
FsWriteEarly(f, c) == clock < MaxTime /\ FsWrite(f, c)

\* Time passes. Watch is blocked on the channel of events: those reported
\* before MaxTime are handled by MaxTime.
AdvanceLive ==
    /\ clock < MaxTime \/ events = <<>>
    /\ clock < LastInstant
    /\ clock' = clock + 1
    /\ UNCHANGED <<storeVars, nonWatchVars, run, done, lastWriter, latest, enr, disk, events, pendingFiles, deb, burst>>

\* One step of reindexFile.
ReindexStep ==
    \/ ReindexStat
    \/ \E ok \in BOOLEAN : ReindexGone(ok)
    \/ \E ok \in BOOLEAN : ReindexScan(ok)
    \/ \E ok \in BOOLEAN : ReindexDelete(ok)
    \/ \E ok \in BOOLEAN : ReindexUpsert(ok)
    \/ \E ok \in BOOLEAN, registered \in SUBSET DetectRequiredLanguages(deb.scanned) :
          \E started \in SUBSET registered : ReindexEnrich(ok, started, registered)
    \/ \E n \in deb.todo, ok \in BOOLEAN : ReindexWorkerOpen(n, ok)
    \/ ReindexStoreEdges

\* The ticker of processDebounced fires with an entry whose deadline has
\* passed.
TickFires == \E order \in UNION {Orders(S) : S \in SUBSET SourcePaths} : Tick(order)

NextWatchLive ==
    \/ \E f \in SourcePaths, c \in Contents : FsWriteEarly(f, c)
    \/ \E f \in SourcePaths, op \in {"remove", "rename"} : FsRemove(f, op)
    \/ \E ok \in BOOLEAN : HandleEvent(ok)
    \/ TickFires
    \/ ReindexStep
    \/ AdvanceLive

\* The loop of Watch receives, the ticker fires every 100 ms, the goroutine
\* of processDebounced runs on, and time passes.
SpecWatchLive ==
    /\ InitWatch
    /\ [][NextWatchLive]_vars
    /\ WF_vars(\E ok \in BOOLEAN : HandleEvent(ok))
    /\ WF_vars(TickFires)
    /\ WF_vars(ReindexStep)
    /\ WF_vars(AdvanceLive)

\* fsnotify has reported a Write or a Create of f that Watch has not yet
\* received.
WriteReported(f) ==
    \E i \in 1..Len(events) : events[i].path = f /\ SwitchCase(events[i].ops) \in {"write", "create"}

\* Every reported Write/Create of f was handled, the entry the last of them
\* set was removed from pendingFiles, and reindexFile(f) was entered after the
\* removal.
ReindexedSince(f) ==
    /\ ~WriteReported(f)
    /\ ~HasPending(pendingFiles, f)
    /\ burst[f].flushes >= 1
    /\ burst[f].reindexes >= 1

\* C39: every Write/Create event on a supported, non-ignored file is
\* eventually followed by a reindex of that file that starts after the event,
\* also when the event arrives while a reindex of the same file is running:
\* the entry was removed from pendingFiles before the reindex started, so the
\* event sets a new entry, which is flushed in its turn.
EventEventuallyReindexed ==
    \A f \in SourcePaths :
        (WriteReported(f) \/ HasPending(pendingFiles, f)) ~> ReindexedSince(f)

\* A reindex of f is between its scan and its last store call, its entry is
\* gone from the ready list of the map, and an event handled meanwhile has
\* set a new entry for f.
RearmedDuringReindex ==
    \E f \in SourcePaths :
        /\ deb.pc \in {"scan", "delete", "upsert", "enriching", "edges"}
        /\ Head(deb.ready) = f
        /\ HasPending(pendingFiles, f)
        /\ burst[f].n >= 1
        /\ burst[f].flushes = 0

----------------------------------------------------------------------------
(* SpecFindNode: the node resolver of Enrich, asked for the node at a line *)

\* Last line of the files of the resolver.
MaxSpanLine == 3

\* Most nodes the resolver holds.
MaxResolver == 3

\* A node of the file f that spans the lines a to b.
SpanNode(f, name, a, b) ==
    [Node(f, name, a) EXCEPT !.id = Rel(f) \o ":" \o name \o ToString(a) \o ToString(b),
                             !.line_end = b]

\* The nodes the resolver can hold: every span of /w/a.go, a second node on
\* the span of the whole file, and one node of /w/b.go.
ResolverNodes ==
    {SpanNode("/w/a.go", "F", s[1], s[2]) :
        s \in {x \in (1..MaxSpanLine) \X (1..MaxSpanLine) : x[1] <= x[2]}}
    \cup {SpanNode("/w/a.go", "G", 1, MaxSpanLine), SpanNode("/w/b.go", "F", 1, MaxSpanLine)}

\* The lists of distinct nodes a resolver holds, in the order of its slice.
ResolverLists ==
    {l \in SeqsUpTo(ResolverNodes, MaxResolver) : \A i, j \in 1..Len(l) : l[i] = l[j] => i = j}

\* The paths asked for: the two files with nodes and a file without.
ResolverPaths == {"/w/a.go", "/w/b.go", "/w/c.go"}

\* The lines asked for: those of the files and one beyond.
ResolverLines == 1..(MaxSpanLine + 1)

\* MockNodeResolver.FindNode: the node n is of the file and its range of
\* lines holds the line.
Contains(n, path, line) ==
    n.file_path = path /\ n.line_start <= line /\ n.line_end >= line

\* A resolver that never prefers a later node.
NestedNever(n, best) == FALSE

\* MockNodeResolver.FindNode: the range of n lies within that of best.
Nested(n, best) == n.line_start >= best.line_start /\ n.line_end <= best.line_end

\* MockNodeResolver.FindNode: one turn of the loop over m.nodes; best is
\* empty for nil.
BestAfter(best, n, path, line) ==
    IF ~Contains(n, path, line) THEN best
    ELSE IF best = {} THEN {n}
    ELSE IF Nested(n, CHOOSE b \in best : TRUE) THEN {n}
    ELSE best

RECURSIVE MockFindNode(_, _, _)
\* MockNodeResolver.FindNode: the loop over the nodes of list, in order.
MockFindNode(list, path, line) ==
    IF list = <<>> THEN {}
    ELSE BestAfter(MockFindNode(SubSeq(list, 1, Len(list) - 1), path, line),
                   list[Len(list)], path, line)

\* No resolver was asked yet.
ResolverIdle(list) ==
    [asked |-> FALSE, list |-> list, path |-> NoFile, line |-> 0, mock |-> {}, store |-> {}]

\* resolver.FindNode(ctx, path, line, col), as findReferenceEdges calls it:
\* the answer of the resolver of the tests over its slice, and that of the
\* store over its rows.
FindNodeCall(path, line) ==
    /\ qry' = [qry EXCEPT !.asked = TRUE, !.path = path, !.line = line,
                          !.mock = MockFindNode(qry.list, path, line),
                          !.store = FindNode(nodes, Loc(path, line))]
    /\ UNCHANGED <<storeVars, impact, storeCall, life, mainPc, idx, lastEnded, watchVars>>

InitFindNode ==
    /\ impact = ImpactIdle
    /\ storeCall = StoreCallsIdle
    /\ WatchUnused
    /\ life = NewLife
    /\ mainPc = "serving"
    /\ idx = [i \in IndexCalls |-> IndexIdle]
    /\ lastEnded = NoRun
    /\ \E l \in ResolverLists :
          /\ qry = ResolverIdle(l)
          /\ nodes = Elems(l)
    /\ edges = {}
    /\ lastOp = Op("New", NoFile, {}, TRUE, <<>>, {})

NextFindNode == \E path \in ResolverPaths, line \in ResolverLines : FindNodeCall(path, line)

SpecFindNode == InitFindNode /\ [][NextFindNode]_vars

\* The range of lines of m lies within that of n and is not the same.
StrictlyInside(m, n) ==
    /\ m.line_start >= n.line_start
    /\ m.line_end <= n.line_end
    /\ <<m.line_start, m.line_end>> # <<n.line_start, n.line_end>>

\* The answer r is right for the line of the path over the nodes N: none when
\* no node of the file holds the line, else one node of the file that holds
\* the line and has no other such node strictly inside it.
InnermostOf(N, path, line, r) ==
    IF \A n \in N : ~(n.file_path = path /\ n.line_start <= line /\ line <= n.line_end)
    THEN r = {}
    ELSE /\ Cardinality(r) = 1
         /\ r \subseteq N
         /\ \A n \in r :
               /\ n.file_path = path /\ n.line_start <= line /\ line <= n.line_end
               /\ \A m \in N :
                     (m.file_path = path /\ m.line_start <= line /\ line <= m.line_end)
                         => ~StrictlyInside(m, n)

\* C40: find_containing_node(path, line, col) returns a node of that file
\* whose range of lines contains the line and, among all such nodes, an
\* innermost one: no other containing node is nested inside it. It returns no
\* node when no node of the file contains the line or the file has no nodes.
FindNodeInnermost ==
    qry.asked =>
        /\ InnermostOf(nodes, qry.path, qry.line, qry.mock)
        /\ InnermostOf(nodes, qry.path, qry.line, qry.store)

\* The resolver met an outer node first and then a node nested in it, with a
\* third node of the file that does not hold the line, and answered with the
\* nested one.
FoundNestedNode ==
    /\ qry.asked
    /\ Len(qry.list) = MaxResolver
    /\ \E n \in qry.mock, i, j, k \in 1..Len(qry.list) :
          /\ i < j
          /\ qry.list[j] = n
          /\ Contains(qry.list[i], qry.path, qry.line)
          /\ StrictlyInside(n, qry.list[i])
          /\ qry.list[k].file_path = qry.path
          /\ ~Contains(qry.list[k], qry.path, qry.line)
          /\ qry.store = qry.mock

====
